---- MODULE Spec2Model ----
(***************************************************************************)
(* NocoDB MCP bridge: the Transport Client (NocoDBClient) and the Tool     *)
(* Dispatcher (handle_list_tools / handle_call_tool) of                    *)
(* src/src/nocodb_mcp/server.py.                                           *)
(*                                                                         *)
(* JSON / Python values are tagged records, text is a TLA+ string, a       *)
(* Python dict is a sequence of <<key, value>> pairs in insertion order.   *)
(***************************************************************************)
EXTENDS Integers, Sequences, FiniteSets, TLC

VARIABLES client, calls

vars == <<client, calls>>

(***************************************************************************)
(* Bounds of the model and constants of the program.                       *)
(***************************************************************************)
\* Longest list the upstream service answers with, and longest list of
\* record identifiers a caller passes.
MaxListLen == 2

\* Invocations that may be in flight side by side (slots of the event loop).
NumSlots == 2

\* timeout=30.0 of client.request
RequestTimeoutSeconds == 30

\* arguments.get("limit", 25)
DefaultLimit == 25

\* arguments.get("offset", 0)
DefaultOffset == 0

(***************************************************************************)
(* Python / JSON values.                                                   *)
(***************************************************************************)
None == [t |-> "null"]
JStr(s) == [t |-> "str", v |-> s]
JInt(n) == [t |-> "int", v |-> n]
JBool(b) == [t |-> "bool", v |-> b]
JObj(pairs) == [t |-> "obj", v |-> pairs]
JArr(items) == [t |-> "arr", v |-> items]

\* Faulty variant of Falsy: `x is None`.
IsNone(x) == x.t = "null"

\* Python truth value testing: `not x`.
Falsy(x) ==
  CASE x.t = "null" -> TRUE
    [] x.t = "str" -> x.v = ""
    [] x.t = "int" -> x.v = 0
    [] x.t = "bool" -> ~x.v
    [] x.t = "obj" -> Len(x.v) = 0
    [] x.t = "arr" -> Len(x.v) = 0

\* type(x).__name__
PyTypeName(x) ==
  CASE x.t = "null" -> "NoneType"
    [] x.t = "str" -> "str"
    [] x.t = "int" -> "int"
    [] x.t = "bool" -> "bool"
    [] x.t = "obj" -> "dict"
    [] x.t = "arr" -> "list"

\* x == y; values of different types are unequal
PyEq(x, y) == x.t = y.t /\ x = y

\* isinstance(x, dict)
IsDict(x) == x.t = "obj"

\* key in d, for a dict d
DictHas(d, key) == \E i \in 1..Len(d.v) : d.v[i][1] = key

\* d.get(key, default), for a dict d
DictGet(d, key, default) ==
  IF DictHas(d, key)
    THEN d.v[CHOOSE i \in 1..Len(d.v) : d.v[i][1] = key][2]
    ELSE default

\* Faulty variant of ArgGet: a mapping that holds the unlisted key "sort" is
\* not read at all.
ArgGetStrict(arguments, key, default) ==
  IF "sort" \in DOMAIN arguments THEN None
  ELSE IF key \in DOMAIN arguments THEN arguments[key] ELSE default

\* arguments.get(key, default): the argument mapping is a function from the
\* keys that are present to their values.
ArgGet(arguments, key, default) ==
  IF key \in DOMAIN arguments THEN arguments[key] ELSE default

RECURSIVE PyRepr(_)
RECURSIVE PyReprItems(_, _)
RECURSIVE PyReprPairs(_, _)

\* repr(x)
PyRepr(x) ==
  CASE x.t = "null" -> "None"
    [] x.t = "str" -> "'" \o x.v \o "'"
    [] x.t = "int" -> ToString(x.v)
    [] x.t = "bool" -> (IF x.v THEN "True" ELSE "False")
    [] x.t = "arr" -> "[" \o PyReprItems(x.v, 1) \o "]"
    [] x.t = "obj" -> "{" \o PyReprPairs(x.v, 1) \o "}"

PyReprItems(items, i) ==
  IF i > Len(items) THEN ""
  ELSE PyRepr(items[i]) \o (IF i < Len(items) THEN ", " ELSE "")
       \o PyReprItems(items, i + 1)

PyReprPairs(pairs, i) ==
  IF i > Len(pairs) THEN ""
  ELSE "'" \o pairs[i][1] \o "': " \o PyRepr(pairs[i][2])
       \o (IF i < Len(pairs) THEN ", " ELSE "")
       \o PyReprPairs(pairs, i + 1)

\* str(x), as an f-string formats a value: a str is itself, anything else
\* its repr.
PyStr(x) == IF x.t = "str" THEN x.v ELSE PyRepr(x)

\* s.rstrip('/')
RECURSIVE RStripSlash(_)
RStripSlash(s) ==
  IF Len(s) > 0 /\ SubSeq(s, Len(s), Len(s)) = "/"
    THEN RStripSlash(SubSeq(s, 1, Len(s) - 1))
    ELSE s

\* text.startswith(prefix)
StartsWith(text, prefix) ==
  Len(text) >= Len(prefix) /\ SubSeq(text, 1, Len(prefix)) = prefix

\* sub in text
Contains(text, sub) ==
  \E i \in 1..(Len(text) - Len(sub) + 1) : SubSeq(text, i, i + Len(sub) - 1) = sub

(***************************************************************************)
(* json.dumps(value, indent=2)                                             *)
(***************************************************************************)
RECURSIVE Spaces(_)
Spaces(n) == IF n = 0 THEN "" ELSE " " \o Spaces(n - 1)

\* Faulty variant of JsonEscapeChar: no character is escaped.
JsonEscapeCharNone(c) == c

\* The escapes of json's string encoder for the characters a TLA+ string
\* can hold.
JsonEscapeChar(c) ==
  CASE c = "\"" -> "\\\""
    [] c = "\\" -> "\\\\"
    [] c = "\n" -> "\\n"
    [] c = "\t" -> "\\t"
    [] c = "\r" -> "\\r"
    [] c = "\f" -> "\\f"
    [] OTHER -> c

RECURSIVE JsonEscape(_, _)
JsonEscape(s, i) ==
  IF i > Len(s) THEN ""
  ELSE JsonEscapeChar(SubSeq(s, i, i)) \o JsonEscape(s, i + 1)

JsonString(s) == "\"" \o JsonEscape(s, 1) \o "\""

RECURSIVE JsonEncode(_, _)
RECURSIVE JsonEncodeItems(_, _, _)
RECURSIVE JsonEncodePairs(_, _, _)

JsonEncode(x, level) ==
  CASE x.t = "null" -> "null"
    [] x.t = "str" -> JsonString(x.v)
    [] x.t = "int" -> ToString(x.v)
    [] x.t = "bool" -> (IF x.v THEN "true" ELSE "false")
    [] x.t = "arr" ->
         IF Len(x.v) = 0 THEN "[]"
         ELSE "[\n" \o JsonEncodeItems(x.v, 1, level + 1)
              \o "\n" \o Spaces(2 * level) \o "]"
    [] x.t = "obj" ->
         IF Len(x.v) = 0 THEN "{}"
         ELSE "{\n" \o JsonEncodePairs(x.v, 1, level + 1)
              \o "\n" \o Spaces(2 * level) \o "}"

JsonEncodeItems(items, i, level) ==
  IF i > Len(items) THEN ""
  ELSE Spaces(2 * level) \o JsonEncode(items[i], level)
       \o (IF i < Len(items) THEN ",\n" ELSE "")
       \o JsonEncodeItems(items, i + 1, level)

JsonEncodePairs(pairs, i, level) ==
  IF i > Len(pairs) THEN ""
  ELSE Spaces(2 * level) \o JsonString(pairs[i][1]) \o ": "
       \o JsonEncode(pairs[i][2], level)
       \o (IF i < Len(pairs) THEN ",\n" ELSE "")
       \o JsonEncodePairs(pairs, i + 1, level)

\* Faulty variant of json_dumps: the text carries a count of the outputs
\* produced before it.
json_dumps_counting(x) ==
  JsonEncode(x, 0)
    \o ToString(Cardinality({s \in DOMAIN calls : calls[s].pc = "done"}))

\* Faulty variant of json_dumps: str(value).
json_dumps_as_str(x) == PyStr(x)

json_dumps(x) == JsonEncode(x, 0)

(***************************************************************************)
(* Control outcomes of a coroutine: it returns a value, raises an          *)
(* exception, or suspends on one call of NocoDBClient._make_request.       *)
(***************************************************************************)
Return(value) == [k |-> "return", value |-> value]

Raise(cls, msg) == [k |-> "raise", cls |-> cls, msg |-> msg]

\* `await self._make_request(method, endpoint, data)`; post tells what the
\* method does with the awaited result ("raw": return it, "list": the
\* list extraction of the list-style methods).
Await(method, endpoint, data, post) ==
  [k |-> "await", method |-> method, endpoint |-> endpoint, data |-> data,
   post |-> post]

\* The exception classes the model distinguishes, all subclasses of
\* Exception; the httpx ones below derive from httpx.HTTPError.
HTTPErrorClasses == {"ConnectError", "ReadTimeout", "HTTPStatusError"}

ExceptionClasses ==
  HTTPErrorClasses \cup
    {"InvalidURL", "JSONDecodeError", "ValueError", "AttributeError", "Exception"}

(***************************************************************************)
(* NocoDBClient                                                            *)
(***************************************************************************)
\* NocoDBClient.__init__
NocoDBClientInit(base_url, api_token, cf_client_id, cf_client_secret) ==
  [base_url |-> RStripSlash(base_url),
   api_token |-> api_token,
   cf_client_id |-> cf_client_id,
   cf_client_secret |-> cf_client_secret,
   headers |-> << <<"xc-token", api_token>>,
                  <<"Content-Type", "application/json">>,
                  <<"CF-Access-Client-Id", cf_client_id>>,
                  <<"CF-Access-Client-Secret", cf_client_secret>> >>]

\* Faulty variant of HttpRequest: the API prefix is left out and the
\* access-gateway secret is not sent.
HttpRequestBare(self, method, endpoint, data) ==
  [method |-> method,
   endpoint |-> endpoint,
   url |-> self.base_url \o endpoint,
   headers |-> SubSeq(self.headers, 1, 3),
   json |-> data,
   timeout |-> RequestTimeoutSeconds]

\* The arguments of client.request in _make_request.
HttpRequest(self, method, endpoint, data) ==
  [method |-> method,
   endpoint |-> endpoint,
   url |-> self.base_url \o "/api/v2" \o endpoint,
   headers |-> self.headers,
   json |-> data,
   timeout |-> RequestTimeoutSeconds]

\* Faulty variant of IsSuccess: every status passes.
IsSuccessAlways(status) == TRUE

\* response.is_success, as raise_for_status tests it
IsSuccess(status) == 200 <= status /\ status <= 299

\* The first line of the message of the httpx.HTTPStatusError that
\* raise_for_status raises.
HTTPStatusMessage(status, url) ==
  (IF status < 200 THEN "Informational response"
   ELSE IF status < 400 THEN "Redirect response"
   ELSE IF status < 500 THEN "Client error"
   ELSE "Server error")
  \o " '" \o ToString(status) \o "' for url '" \o url \o "'"

\* Faulty variant of MakeRequestTry: once an invocation has failed, requests
\* are refused without looking at the response.
MakeRequestTryBreaker(request, outcome) ==
  IF \E s \in DOMAIN calls : calls[s].pc = "done" /\ calls[s].error.k = "raise"
    THEN Raise("ConnectError", "circuit open")
  ELSE IF outcome.kind = "raise" THEN Raise(outcome.cls, outcome.msg)
  ELSE IF ~IsSuccess(outcome.status)
    THEN Raise("HTTPStatusError", HTTPStatusMessage(outcome.status, request.url))
  ELSE IF outcome.content.c = "empty" THEN Return(JObj(<< >>))
  ELSE IF outcome.content.c = "invalid"
    THEN Raise("JSONDecodeError", outcome.content.msg)
  ELSE Return(outcome.content.value)

\* The body of the try block of _make_request, given what the network did:
\* client.request raised, or a response arrived.
MakeRequestTry(request, outcome) ==
  IF outcome.kind = "raise" THEN Raise(outcome.cls, outcome.msg)
  ELSE IF ~IsSuccess(outcome.status)
    THEN Raise("HTTPStatusError", HTTPStatusMessage(outcome.status, request.url))
  ELSE IF outcome.content.c = "empty" THEN Return(JObj(<< >>))
  ELSE IF outcome.content.c = "invalid"
    THEN Raise("JSONDecodeError", outcome.content.msg)
  ELSE Return(outcome.content.value)

\* Faulty variant of MakeRequestHTTPErrorText: the text of the other except clause.
MakeRequestUniformErrorText(msg) == "Request failed: " \o msg

\* `except httpx.HTTPError as e`
MakeRequestHTTPErrorText(msg) == "API request failed: " \o msg

\* `except Exception as e`
MakeRequestErrorText(msg) == "Request failed: " \o msg

\* _make_request after its suspension point: the value it returns or the
\* exception it raises, and the number of records it logs.
make_request(request, outcome) ==
  LET r == MakeRequestTry(request, outcome) IN
    IF r.k = "return" THEN [res |-> r, logged |-> 0]
    ELSE IF r.cls \in HTTPErrorClasses
      THEN [res |-> Raise("Exception", MakeRequestHTTPErrorText(r.msg)), logged |-> 1]
    ELSE [res |-> Raise("Exception", MakeRequestErrorText(r.msg)), logged |-> 1]

\* Faulty variant of ExtractList: a mapping without 'list' is returned itself.
ExtractListOrBody(result) ==
  IF IsDict(result) THEN DictGet(result, "list", result) ELSE result

\* Faulty variant of ExtractList: the decoded body as it is.
ExtractListIdentity(result) == result

\* result.get('list', []) if isinstance(result, dict) else result
ExtractList(result) ==
  IF IsDict(result) THEN DictGet(result, "list", JArr(<< >>)) ELSE result

\* What a client method returns once its await has produced `result`.
ClientPost(post, result) == IF post = "list" THEN ExtractList(result) ELSE result

\* Faulty variant of list_bases: the dispatcher has no branch for the tool.
list_bases_unhandled == Raise("ValueError", "Unknown tool: list_bases")

list_bases == Await("GET", "/meta/bases", None, "list")

get_base_info(base_id) ==
  Await("GET", "/meta/bases/" \o PyStr(base_id) \o "/info", None, "raw")

list_tables(base_id) ==
  Await("GET", "/meta/bases/" \o PyStr(base_id) \o "/tables", None, "list")

get_table_info(table_id) ==
  Await("GET", "/meta/tables/" \o PyStr(table_id), None, "raw")

create_base(title, description) ==
  Await("POST", "/meta/bases",
        JObj(<< <<"title", title>>, <<"description", description>> >>), "raw")

create_table(base_id, title, table_name, columns) ==
  Await("POST", "/meta/bases/" \o PyStr(base_id) \o "/tables",
        JObj(<< <<"table_name", table_name>>, <<"title", title>>,
                <<"columns", columns>> >>), "raw")

create_column(table_id, column_data) ==
  Await("POST", "/meta/tables/" \o PyStr(table_id) \o "/columns", column_data, "raw")

update_column(table_id, column_id, column_data) ==
  Await("PATCH",
        "/meta/tables/" \o PyStr(table_id) \o "/columns/" \o PyStr(column_id),
        column_data, "raw")

delete_column(table_id, column_id) ==
  Await("DELETE",
        "/meta/tables/" \o PyStr(table_id) \o "/columns/" \o PyStr(column_id),
        None, "raw")

duplicate_table(table_id, options) ==
  Await("POST", "/meta/tables/" \o PyStr(table_id) \o "/duplicate", options, "raw")

delete_table(table_id) ==
  Await("DELETE", "/meta/tables/" \o PyStr(table_id), None, "raw")

\* Faulty variant of create_view: an unrecognized type falls back to the grid.
create_view_default_grid(table_id, view_data) ==
  IF ~IsDict(view_data)
    THEN Raise("AttributeError",
               "'" \o PyTypeName(view_data) \o "' object has no attribute 'get'")
  ELSE LET ty == DictGet(view_data, "type", JStr("grid"))
           segment == IF PyEq(ty, JStr("form")) THEN "/forms"
                      ELSE IF PyEq(ty, JStr("gallery")) THEN "/galleries"
                      ELSE IF PyEq(ty, JStr("kanban")) THEN "/kanbans"
                      ELSE "/grids"
       IN Await("POST", "/meta/tables/" \o PyStr(table_id) \o segment, view_data, "raw")

\* Faulty variant of create_view: the gallery shares the grid's sub-path.
create_view_gallery_as_grid(table_id, view_data) ==
  IF ~IsDict(view_data)
    THEN Raise("AttributeError",
               "'" \o PyTypeName(view_data) \o "' object has no attribute 'get'")
  ELSE LET ty == DictGet(view_data, "type", JStr("grid")) IN
    IF PyEq(ty, JStr("grid")) \/ PyEq(ty, JStr("gallery"))
      THEN Await("POST", "/meta/tables/" \o PyStr(table_id) \o "/grids", view_data, "raw")
    ELSE IF PyEq(ty, JStr("form"))
      THEN Await("POST", "/meta/tables/" \o PyStr(table_id) \o "/forms", view_data, "raw")
    ELSE IF PyEq(ty, JStr("kanban"))
      THEN Await("POST", "/meta/tables/" \o PyStr(table_id) \o "/kanbans", view_data, "raw")
    ELSE Raise("ValueError", "Unsupported view type: " \o PyStr(ty))

\* Faulty variant of ViewType: no default type.
ViewTypeNoDefault(view_data) == DictGet(view_data, "type", None)

\* view_data.get('type', 'grid'); a value that is no dict has no get
ViewType(view_data) == DictGet(view_data, "type", JStr("grid"))

create_view(table_id, view_data) ==
  IF ~IsDict(view_data)
    THEN Raise("AttributeError",
               "'" \o PyTypeName(view_data) \o "' object has no attribute 'get'")
  ELSE LET view_type == ViewType(view_data) IN
    IF PyEq(view_type, JStr("grid"))
      THEN Await("POST", "/meta/tables/" \o PyStr(table_id) \o "/grids", view_data, "raw")
    ELSE IF PyEq(view_type, JStr("form"))
      THEN Await("POST", "/meta/tables/" \o PyStr(table_id) \o "/forms", view_data, "raw")
    ELSE IF PyEq(view_type, JStr("gallery"))
      THEN Await("POST", "/meta/tables/" \o PyStr(table_id) \o "/galleries", view_data, "raw")
    ELSE IF PyEq(view_type, JStr("kanban"))
      THEN Await("POST", "/meta/tables/" \o PyStr(table_id) \o "/kanbans", view_data, "raw")
    ELSE Raise("ValueError", "Unsupported view type: " \o PyStr(view_type))

list_views(table_id) ==
  Await("GET", "/meta/tables/" \o PyStr(table_id) \o "/views", None, "list")

delete_view(view_id) ==
  Await("DELETE", "/meta/views/" \o PyStr(view_id), None, "raw")

create_filter(view_id, filter_data) ==
  Await("POST", "/meta/views/" \o PyStr(view_id) \o "/filters", filter_data, "raw")

list_filters(view_id) ==
  Await("GET", "/meta/views/" \o PyStr(view_id) \o "/filters", None, "list")

delete_filter(filter_id) ==
  Await("DELETE", "/meta/filters/" \o PyStr(filter_id), None, "raw")

create_sort(view_id, sort_data) ==
  Await("POST", "/meta/views/" \o PyStr(view_id) \o "/sorts", sort_data, "raw")

list_sorts(view_id) ==
  Await("GET", "/meta/views/" \o PyStr(view_id) \o "/sorts", None, "list")

\* Faulty variant of delete_sort: a misspelt resource segment.
delete_sort_misspelt(sort_id) ==
  Await("DELETE", "/meta/sort/" \o PyStr(sort_id), None, "raw")

delete_sort(sort_id) ==
  Await("DELETE", "/meta/sorts/" \o PyStr(sort_id), None, "raw")

create_webhook(table_id, webhook_data) ==
  Await("POST", "/meta/tables/" \o PyStr(table_id) \o "/hooks", webhook_data, "raw")

list_webhooks(table_id) ==
  Await("GET", "/meta/tables/" \o PyStr(table_id) \o "/hooks", None, "list")

delete_webhook(hook_id) ==
  Await("DELETE", "/meta/hooks/" \o PyStr(hook_id), None, "raw")

test_webhook(table_id, webhook_data) ==
  Await("POST", "/meta/tables/" \o PyStr(table_id) \o "/hooks/test", webhook_data, "raw")

\* Faulty variant of get_table_data: limit and offset swapped in the query string.
get_table_data_swapped(table_id, limit, offset) ==
  Await("GET",
        "/tables/" \o PyStr(table_id) \o "/records?limit=" \o PyStr(offset)
          \o "&offset=" \o PyStr(limit),
        None, "raw")

get_table_data(table_id, limit, offset) ==
  Await("GET",
        "/tables/" \o PyStr(table_id) \o "/records?limit=" \o PyStr(limit)
          \o "&offset=" \o PyStr(offset),
        None, "raw")

create_record(table_id, data) ==
  Await("POST", "/tables/" \o PyStr(table_id) \o "/records", data, "raw")

update_record(table_id, record_id, data) ==
  Await("PATCH",
        "/tables/" \o PyStr(table_id) \o "/records/" \o PyStr(record_id), data, "raw")

\* Faulty variant of delete_record: the path lacks the records segment.
delete_record_no_segment(table_id, record_id) ==
  Await("DELETE", "/tables/" \o PyStr(table_id) \o "/" \o PyStr(record_id), None, "raw")

delete_record(table_id, record_id) ==
  Await("DELETE",
        "/tables/" \o PyStr(table_id) \o "/records/" \o PyStr(record_id), None, "raw")

\* Faulty variant of get_record: the record is fetched with a POST that
\* carries the identifier.
get_record_by_post(table_id, record_id) ==
  Await("POST", "/tables/" \o PyStr(table_id) \o "/records/" \o PyStr(record_id),
        JObj(<< <<"Id", record_id>> >>), "raw")

get_record(table_id, record_id) ==
  Await("GET",
        "/tables/" \o PyStr(table_id) \o "/records/" \o PyStr(record_id), None, "raw")

bulk_insert_records(table_id, records) ==
  Await("POST", "/tables/" \o PyStr(table_id) \o "/records", records, "raw")

bulk_update_records(table_id, records) ==
  Await("PATCH", "/tables/" \o PyStr(table_id) \o "/records", records, "raw")

\* Faulty variant of bulk_delete_records: the list is sent bare, as the
\* other bulk methods send theirs.
bulk_delete_records_bare(table_id, record_ids) ==
  Await("DELETE", "/tables/" \o PyStr(table_id) \o "/records", record_ids, "raw")

bulk_delete_records(table_id, record_ids) ==
  Await("DELETE", "/tables/" \o PyStr(table_id) \o "/records",
        JObj(<< <<"ids", record_ids>> >>), "raw")

\* Faulty variant of get_table_schema: the columns resource of the table.
get_table_schema_columns(table_id) ==
  Await("GET", "/meta/tables/" \o PyStr(table_id) \o "/columns", None, "raw")

get_table_schema(table_id) ==
  Await("GET", "/meta/tables/" \o PyStr(table_id), None, "raw")

\* Faulty variant of export_table_data: the format is checked against the
\* schema's enum.
export_table_data_checked(table_id, export_type) ==
  IF export_type.t = "str" /\ export_type.v \in {"csv", "excel", "json"}
    THEN Await("GET", "/tables/" \o PyStr(table_id) \o "/export/" \o PyStr(export_type),
               None, "raw")
    ELSE Raise("ValueError", "Unsupported export type: " \o PyStr(export_type))

export_table_data(table_id, export_type) ==
  Await("GET", "/tables/" \o PyStr(table_id) \o "/export/" \o PyStr(export_type),
        None, "raw")

\* Faulty variant of get_table_count: the where parameter is always sent.
get_table_count_always_where(table_id, where) ==
  Await("GET", "/tables/" \o PyStr(table_id) \o "/count" \o "?count=true&where="
                 \o PyStr(where),
        None, "raw")

\* params = {'count': 'true'}, plus 'where' when where is truthy, joined
\* as k=v with '&'
get_table_count(table_id, where) ==
  LET params == IF Falsy(where) THEN << <<"count", "true">> >>
                ELSE << <<"count", "true">>, <<"where", PyStr(where)>> >>
      query_string ==
        IF Len(params) = 1 THEN params[1][1] \o "=" \o params[1][2]
        ELSE params[1][1] \o "=" \o params[1][2] \o "&"
             \o params[2][1] \o "=" \o params[2][2]
  IN Await("GET", "/tables/" \o PyStr(table_id) \o "/count" \o "?" \o query_string,
           None, "raw")

(***************************************************************************)
(* Tool Dispatcher                                                         *)
(***************************************************************************)
\* handle_list_tools: the descriptors in the order of the source, each with
\* the property names and the required list of its inputSchema.
handle_list_tools ==
  <<
     [name |-> "list_bases",
      properties |-> <<>>,
      required |-> <<>>],
     [name |-> "get_base_info",
      properties |-> <<"base_id">>,
      required |-> <<"base_id">>],
     [name |-> "create_base",
      properties |-> <<"title", "description">>,
      required |-> <<"title">>],
     [name |-> "list_tables",
      properties |-> <<"base_id">>,
      required |-> <<"base_id">>],
     [name |-> "get_table_info",
      properties |-> <<"table_id">>,
      required |-> <<"table_id">>],
     [name |-> "create_table",
      properties |-> <<"base_id", "title", "table_name", "columns">>,
      required |-> <<"base_id", "title", "table_name", "columns">>],
     [name |-> "delete_table",
      properties |-> <<"table_id">>,
      required |-> <<"table_id">>],
     [name |-> "create_column",
      properties |-> <<"table_id", "column_data">>,
      required |-> <<"table_id", "column_data">>],
     [name |-> "update_column",
      properties |-> <<"table_id", "column_id", "column_data">>,
      required |-> <<"table_id", "column_id", "column_data">>],
     [name |-> "delete_column",
      properties |-> <<"table_id", "column_id">>,
      required |-> <<"table_id", "column_id">>],
     [name |-> "create_view",
      properties |-> <<"table_id", "view_data">>,
      required |-> <<"table_id", "view_data">>],
     [name |-> "list_views",
      properties |-> <<"table_id">>,
      required |-> <<"table_id">>],
     [name |-> "delete_view",
      properties |-> <<"view_id">>,
      required |-> <<"view_id">>],
     [name |-> "create_filter",
      properties |-> <<"view_id", "filter_data">>,
      required |-> <<"view_id", "filter_data">>],
     [name |-> "list_filters",
      properties |-> <<"view_id">>,
      required |-> <<"view_id">>],
     [name |-> "delete_filter",
      properties |-> <<"filter_id">>,
      required |-> <<"filter_id">>],
     [name |-> "create_sort",
      properties |-> <<"view_id", "sort_data">>,
      required |-> <<"view_id", "sort_data">>],
     [name |-> "list_sorts",
      properties |-> <<"view_id">>,
      required |-> <<"view_id">>],
     [name |-> "delete_sort",
      properties |-> <<"sort_id">>,
      required |-> <<"sort_id">>],
     [name |-> "create_webhook",
      properties |-> <<"table_id", "webhook_data">>,
      required |-> <<"table_id", "webhook_data">>],
     [name |-> "list_webhooks",
      properties |-> <<"table_id">>,
      required |-> <<"table_id">>],
     [name |-> "delete_webhook",
      properties |-> <<"hook_id">>,
      required |-> <<"hook_id">>],
     [name |-> "test_webhook",
      properties |-> <<"table_id", "webhook_data">>,
      required |-> <<"table_id", "webhook_data">>],
     [name |-> "duplicate_table",
      properties |-> <<"table_id", "options">>,
      required |-> <<"table_id", "options">>],
     [name |-> "get_table_data",
      properties |-> <<"table_id", "limit", "offset">>,
      required |-> <<"table_id">>],
     [name |-> "create_record",
      properties |-> <<"table_id", "data">>,
      required |-> <<"table_id", "data">>],
     [name |-> "update_record",
      properties |-> <<"table_id", "record_id", "data">>,
      required |-> <<"table_id", "record_id", "data">>],
     [name |-> "delete_record",
      properties |-> <<"table_id", "record_id">>,
      required |-> <<"table_id", "record_id">>],
     [name |-> "get_record",
      properties |-> <<"table_id", "record_id">>,
      required |-> <<"table_id", "record_id">>],
     [name |-> "bulk_insert_records",
      properties |-> <<"table_id", "records">>,
      required |-> <<"table_id", "records">>],
     [name |-> "bulk_update_records",
      properties |-> <<"table_id", "records">>,
      required |-> <<"table_id", "records">>],
     [name |-> "bulk_delete_records",
      properties |-> <<"table_id", "record_ids">>,
      required |-> <<"table_id", "record_ids">>],
     [name |-> "get_table_schema",
      properties |-> <<"table_id">>,
      required |-> <<"table_id">>],
     [name |-> "export_table_data",
      properties |-> <<"table_id", "export_type">>,
      required |-> <<"table_id">>],
     [name |-> "get_table_count",
      properties |-> <<"table_id", "where">>,
      required |-> <<"table_id">>]
  >>

\* Faulty variant of NotAll: not any([...]).
NotAny(values) == \A i \in 1..Len(values) : Falsy(values[i])

\* not all([...])
NotAll(values) == \E i \in 1..Len(values) : Falsy(values[i])

\* Faulty variant of UnknownTool: the message does not name the tool.
UnknownToolUnnamed(name) == Raise("ValueError", "Unknown tool")

\* raise ValueError(f"Unknown tool: {name}")
UnknownTool(name) == Raise("ValueError", "Unknown tool: " \o name)

\* The try block of handle_call_tool up to its first suspension point: the
\* branch of the tool name extracts the arguments, checks them and calls the
\* client method.
handle_call_tool_try(name, arguments) ==
  CASE name = "list_bases" -> list_bases
    [] name = "get_base_info" ->
           LET base_id == ArgGet(arguments, "base_id", None)
           IN IF Falsy(base_id)
             THEN Raise("ValueError", "base_id is required")
             ELSE get_base_info(base_id)
    [] name = "list_tables" ->
           LET base_id == ArgGet(arguments, "base_id", None)
           IN IF Falsy(base_id)
             THEN Raise("ValueError", "base_id is required")
             ELSE list_tables(base_id)
    [] name = "get_table_info" ->
           LET table_id == ArgGet(arguments, "table_id", None)
           IN IF Falsy(table_id)
             THEN Raise("ValueError", "table_id is required")
             ELSE get_table_info(table_id)
    [] name = "create_base" ->
           LET title == ArgGet(arguments, "title", None)
               description == ArgGet(arguments, "description", JStr(""))
           IN IF Falsy(title)
             THEN Raise("ValueError", "title is required")
             ELSE create_base(title, description)
    [] name = "create_table" ->
           LET base_id == ArgGet(arguments, "base_id", None)
               title == ArgGet(arguments, "title", None)
               table_name == ArgGet(arguments, "table_name", None)
               columns == ArgGet(arguments, "columns", None)
           IN IF NotAll(<<base_id, title, table_name, columns>>)
             THEN Raise("ValueError", "base_id, title, table_name, and columns are required")
             ELSE create_table(base_id, title, table_name, columns)
    [] name = "delete_table" ->
           LET table_id == ArgGet(arguments, "table_id", None)
           IN IF Falsy(table_id)
             THEN Raise("ValueError", "table_id is required")
             ELSE delete_table(table_id)
    [] name = "create_column" ->
           LET table_id == ArgGet(arguments, "table_id", None)
               column_data == ArgGet(arguments, "column_data", None)
           IN IF NotAll(<<table_id, column_data>>)
             THEN Raise("ValueError", "table_id and column_data are required")
             ELSE create_column(table_id, column_data)
    [] name = "update_column" ->
           LET table_id == ArgGet(arguments, "table_id", None)
               column_id == ArgGet(arguments, "column_id", None)
               column_data == ArgGet(arguments, "column_data", None)
           IN IF NotAll(<<table_id, column_id, column_data>>)
             THEN Raise("ValueError", "table_id, column_id, and column_data are required")
             ELSE update_column(table_id, column_id, column_data)
    [] name = "delete_column" ->
           LET table_id == ArgGet(arguments, "table_id", None)
               column_id == ArgGet(arguments, "column_id", None)
           IN IF NotAll(<<table_id, column_id>>)
             THEN Raise("ValueError", "table_id and column_id are required")
             ELSE delete_column(table_id, column_id)
    [] name = "create_view" ->
           LET table_id == ArgGet(arguments, "table_id", None)
               view_data == ArgGet(arguments, "view_data", None)
           IN IF NotAll(<<table_id, view_data>>)
             THEN Raise("ValueError", "table_id and view_data are required")
             ELSE create_view(table_id, view_data)
    [] name = "list_views" ->
           LET table_id == ArgGet(arguments, "table_id", None)
           IN IF Falsy(table_id)
             THEN Raise("ValueError", "table_id is required")
             ELSE list_views(table_id)
    [] name = "delete_view" ->
           LET view_id == ArgGet(arguments, "view_id", None)
           IN IF Falsy(view_id)
             THEN Raise("ValueError", "view_id is required")
             ELSE delete_view(view_id)
    [] name = "create_filter" ->
           LET view_id == ArgGet(arguments, "view_id", None)
               filter_data == ArgGet(arguments, "filter_data", None)
           IN IF NotAll(<<view_id, filter_data>>)
             THEN Raise("ValueError", "view_id and filter_data are required")
             ELSE create_filter(view_id, filter_data)
    [] name = "list_filters" ->
           LET view_id == ArgGet(arguments, "view_id", None)
           IN IF Falsy(view_id)
             THEN Raise("ValueError", "view_id is required")
             ELSE list_filters(view_id)
    [] name = "delete_filter" ->
           LET filter_id == ArgGet(arguments, "filter_id", None)
           IN IF Falsy(filter_id)
             THEN Raise("ValueError", "filter_id is required")
             ELSE delete_filter(filter_id)
    [] name = "create_sort" ->
           LET view_id == ArgGet(arguments, "view_id", None)
               sort_data == ArgGet(arguments, "sort_data", None)
           IN IF NotAll(<<view_id, sort_data>>)
             THEN Raise("ValueError", "view_id and sort_data are required")
             ELSE create_sort(view_id, sort_data)
    [] name = "list_sorts" ->
           LET view_id == ArgGet(arguments, "view_id", None)
           IN IF Falsy(view_id)
             THEN Raise("ValueError", "view_id is required")
             ELSE list_sorts(view_id)
    [] name = "delete_sort" ->
           LET sort_id == ArgGet(arguments, "sort_id", None)
           IN IF Falsy(sort_id)
             THEN Raise("ValueError", "sort_id is required")
             ELSE delete_sort(sort_id)
    [] name = "create_webhook" ->
           LET table_id == ArgGet(arguments, "table_id", None)
               webhook_data == ArgGet(arguments, "webhook_data", None)
           IN IF NotAll(<<table_id, webhook_data>>)
             THEN Raise("ValueError", "table_id and webhook_data are required")
             ELSE create_webhook(table_id, webhook_data)
    [] name = "list_webhooks" ->
           LET table_id == ArgGet(arguments, "table_id", None)
           IN IF Falsy(table_id)
             THEN Raise("ValueError", "table_id is required")
             ELSE list_webhooks(table_id)
    [] name = "delete_webhook" ->
           LET hook_id == ArgGet(arguments, "hook_id", None)
           IN IF Falsy(hook_id)
             THEN Raise("ValueError", "hook_id is required")
             ELSE delete_webhook(hook_id)
    [] name = "test_webhook" ->
           LET table_id == ArgGet(arguments, "table_id", None)
               webhook_data == ArgGet(arguments, "webhook_data", None)
           IN IF NotAll(<<table_id, webhook_data>>)
             THEN Raise("ValueError", "table_id and webhook_data are required")
             ELSE test_webhook(table_id, webhook_data)
    [] name = "duplicate_table" ->
           LET table_id == ArgGet(arguments, "table_id", None)
               options == ArgGet(arguments, "options", None)
           IN IF NotAll(<<table_id, options>>)
             THEN Raise("ValueError", "table_id and options are required")
             ELSE duplicate_table(table_id, options)
    [] name = "get_table_data" ->
           LET table_id == ArgGet(arguments, "table_id", None)
               limit == ArgGet(arguments, "limit", JInt(DefaultLimit))
               offset == ArgGet(arguments, "offset", JInt(DefaultOffset))
           IN IF Falsy(table_id)
             THEN Raise("ValueError", "table_id is required")
             ELSE get_table_data(table_id, limit, offset)
    [] name = "create_record" ->
           LET table_id == ArgGet(arguments, "table_id", None)
               data == ArgGet(arguments, "data", None)
           IN IF Falsy(table_id) \/ Falsy(data)
             THEN Raise("ValueError", "table_id and data are required")
             ELSE create_record(table_id, data)
    [] name = "update_record" ->
           LET table_id == ArgGet(arguments, "table_id", None)
               record_id == ArgGet(arguments, "record_id", None)
               data == ArgGet(arguments, "data", None)
           IN IF NotAll(<<table_id, record_id, data>>)
             THEN Raise("ValueError", "table_id, record_id, and data are required")
             ELSE update_record(table_id, record_id, data)
    [] name = "delete_record" ->
           LET table_id == ArgGet(arguments, "table_id", None)
               record_id == ArgGet(arguments, "record_id", None)
           IN IF NotAll(<<table_id, record_id>>)
             THEN Raise("ValueError", "table_id and record_id are required")
             ELSE delete_record(table_id, record_id)
    [] name = "get_record" ->
           LET table_id == ArgGet(arguments, "table_id", None)
               record_id == ArgGet(arguments, "record_id", None)
           IN IF NotAll(<<table_id, record_id>>)
             THEN Raise("ValueError", "table_id and record_id are required")
             ELSE get_record(table_id, record_id)
    [] name = "bulk_insert_records" ->
           LET table_id == ArgGet(arguments, "table_id", None)
               records == ArgGet(arguments, "records", None)
           IN IF Falsy(table_id) \/ Falsy(records)
             THEN Raise("ValueError", "table_id and records are required")
             ELSE bulk_insert_records(table_id, records)
    [] name = "bulk_update_records" ->
           LET table_id == ArgGet(arguments, "table_id", None)
               records == ArgGet(arguments, "records", None)
           IN IF Falsy(table_id) \/ Falsy(records)
             THEN Raise("ValueError", "table_id and records are required")
             ELSE bulk_update_records(table_id, records)
    [] name = "bulk_delete_records" ->
           LET table_id == ArgGet(arguments, "table_id", None)
               record_ids == ArgGet(arguments, "record_ids", None)
           IN IF Falsy(table_id) \/ Falsy(record_ids)
             THEN Raise("ValueError", "table_id and record_ids are required")
             ELSE bulk_delete_records(table_id, record_ids)
    [] name = "get_table_schema" ->
           LET table_id == ArgGet(arguments, "table_id", None)
           IN IF Falsy(table_id)
             THEN Raise("ValueError", "table_id is required")
             ELSE get_table_schema(table_id)
    [] name = "export_table_data" ->
           LET table_id == ArgGet(arguments, "table_id", None)
               export_type == ArgGet(arguments, "export_type", JStr("csv"))
           IN IF Falsy(table_id)
             THEN Raise("ValueError", "table_id is required")
             ELSE export_table_data(table_id, export_type)
    [] name = "get_table_count" ->
           LET table_id == ArgGet(arguments, "table_id", None)
               where == ArgGet(arguments, "where", None)
           IN IF Falsy(table_id)
             THEN Raise("ValueError", "table_id is required")
             ELSE get_table_count(table_id, where)
    [] OTHER -> UnknownTool(name)


\* TextContent(type="text", text=text)
TextContent(text) == [type |-> "text", text |-> text]

\* Faulty variant of Caught: `except ValueError as e`.
CaughtValueErrorOnly(cls) == cls = "ValueError"

\* `except Exception as e` of handle_call_tool: the classes it catches.
Caught(cls) == cls \in ExceptionClasses

\* Faulty variant of ErrorText: the message of the error is dropped.
ErrorTextGeneric(msg) == "Error: invalid arguments"

\* f"Error: {str(e)}"
ErrorText(msg) == "Error: " \o msg

(***************************************************************************)
(* The inputs: tool names, argument mappings, what the network does.       *)
(***************************************************************************)
ToolIndex == 1..Len(handle_list_tools)

CatalogueNames == {handle_list_tools[i].name : i \in ToolIndex}

Descriptor(name) ==
  handle_list_tools[CHOOSE i \in ToolIndex : handle_list_tools[i].name = name]

SeqToSet(s) == {s[i] : i \in 1..Len(s)}

Required(name) == SeqToSet(Descriptor(name).required)

\* Names a caller may send that no descriptor has.
UnknownNames == {"drop_database", "List_Bases", ""}

ToolNames == CatalogueNames \cup UnknownNames

SeqsUpTo(S, n) == UNION {[1..k -> S] : k \in 0..n}

\* Values a caller may send for an identifier or a title.
IdValues == {None, JStr(""), JStr("t1"), JInt(0), JInt(7)}

SampleObject == JObj(<< <<"title", JStr("Name")>> >>)

\* Values a caller may send for an object-typed property.
ObjectValues ==
  {None, JObj(<< >>), JArr(<< >>), JStr(""), JBool(FALSE), SampleObject, JStr("x")}

\* Values a caller may send for view_data.
ViewValues ==
  {None, JObj(<< >>), SampleObject, JStr("grid"), JArr(<<JStr("grid")>>), JInt(1)}
  \cup {JObj(<< <<"title", JStr("V")>>, <<"type", ty>> >>) :
          ty \in {JStr("grid"), JStr("form"), JStr("gallery"), JStr("kanban"),
                  JStr("calendar"), JStr("Grid"), JStr(""), None, JInt(1)}}

\* Values a caller may send for a list-typed property.
ListValues ==
  {None, JObj(<< >>), JStr("r1")}
  \cup {JArr(l) : l \in SeqsUpTo({JStr("r1"), JStr("r2")}, MaxListLen)}

FieldValues(field) ==
  CASE field \in {"column_data", "filter_data", "sort_data", "webhook_data",
                  "options", "data"} -> ObjectValues
    [] field = "view_data" -> ViewValues
    [] field \in {"columns", "records", "record_ids"} -> ListValues
    [] field = "description" -> {None, JStr(""), JStr("about")}
    [] field = "limit" -> {None, JInt(0), JInt(10), JStr("5")}
    [] field = "offset" -> {None, JInt(5)}
    [] field = "export_type" -> {None, JStr(""), JStr("csv"), JStr("json"), JStr("xml")}
    [] field = "where" -> {None, JStr(""), JStr("(Status,eq,open)"),
                           JStr("(Title,like,a b&c=d?)")}
    [] OTHER -> IdValues

\* The argument mappings over a sequence of property names: each property
\* absent or present with one of its values.
RECURSIVE ArgMaps(_)
ArgMaps(fields) ==
  IF Len(fields) = 0 THEN {<< >>}
  ELSE LET rest == ArgMaps(Tail(fields)) IN
    rest \cup {(Head(fields) :> v) @@ r : v \in FieldValues(Head(fields)), r \in rest}

ArgumentsOf(name) ==
  IF name \in CatalogueNames THEN ArgMaps(Descriptor(name).properties)
  ELSE ArgMaps(<<"table_id">>)

UpstreamItems == {JObj(<< <<"id", JStr("a")>> >>), JObj(<< <<"id", JStr("b")>> >>)}

UpstreamLists == {JArr(l) : l \in SeqsUpTo(UpstreamItems, MaxListLen)}

PageInfo(l) == JObj(<< <<"totalRows", JInt(Len(l.v))>> >>)

\* Decoded bodies of a successful response.
UpstreamBodies ==
  UpstreamLists
  \cup {JObj(<< <<"list", l>>, <<"pageInfo", PageInfo(l)>> >>) : l \in UpstreamLists}
  \cup {JObj(<< <<"pageInfo", PageInfo(l)>>, <<"list", l>> >>) : l \in UpstreamLists}
  \cup {JObj(<< >>),
        JObj(<< <<"id", JStr("a")>>, <<"title", JStr("T \"1\"")>> >>),
        JObj(<< <<"list", None>> >>),
        JStr("Error: boom"), JStr(""), JInt(3), JBool(TRUE), None}

ResponseContents ==
  {[c |-> "empty"],
   [c |-> "invalid", msg |-> "Expecting value: line 1 column 1 (char 0)"]}
  \cup {[c |-> "json", value |-> b] : b \in UpstreamBodies}

\* What the network does with a request, short of leaving it unanswered:
\* client.request raises, or a response arrives.
Outcomes ==
  {[kind |-> "raise", cls |-> "ConnectError", msg |-> "All connection attempts failed"],
   [kind |-> "raise", cls |-> "InvalidURL", msg |-> "Invalid non-printable ASCII character in URL"]}
  \cup {[kind |-> "response", status |-> 200, content |-> c] : c \in ResponseContents}
  \cup {[kind |-> "response", status |-> 204, content |-> [c |-> "empty"]]}
  \cup {[kind |-> "response", status |-> st,
         content |-> [c |-> "json",
                      value |-> JObj(<< <<"msg", JStr("Error: denied")>> >>)]] :
          st \in {302, 401, 404, 500}}

\* The timeout of client.request expires: httpx.ReadTimeout.
TimeoutOutcome == [kind |-> "raise", cls |-> "ReadTimeout", msg |-> ""]

NoOutcome == [kind |-> "none"]

NoError == [k |-> "none"]

(***************************************************************************)
(* The state machine: calls[s] is the invocation of handle_call_tool in    *)
(* slot s, from the call to the return of its output.                      *)
(***************************************************************************)
Slots == 1..NumSlots

Idle == [pc |-> "idle"]

AllIdle == \A s \in Slots : calls[s].pc = "idle"

\* The invocation has ended: with the output it returned, or (pc "raised")
\* with an exception that left handle_call_tool.
Finished(name, arguments, requests, outcome, error, result, output, nlog, pc) ==
  [pc |-> pc, name |-> name, arguments |-> arguments, requests |-> requests,
   outcome |-> outcome, error |-> error, result |-> result, output |-> output,
   nlog |-> nlog]

\* The except clause of handle_call_tool for exception e, after `logged`
\* records were logged below it.
HandleException(name, arguments, requests, outcome, e, logged) ==
  IF Caught(e.cls)
    THEN Finished(name, arguments, requests, outcome, e, None,
                  <<TextContent(ErrorText(e.msg))>>, logged + 1, "done")
    ELSE Finished(name, arguments, requests, outcome, e, None, << >>, logged, "raised")

\* The connection configurations the process may be started with.
Configs ==
  {[host |-> h, api_token |-> "tok", cf_client_id |-> "cid", cf_client_secret |-> "sec"] :
     h \in {"https://db.example", "https://db.example/", "https://db.example//"}}

Init ==
  /\ \E c \in Configs :
       client = NocoDBClientInit(c.host, c.api_token, c.cf_client_id, c.cf_client_secret)
  /\ calls = [s \in Slots |-> Idle]

\* handle_call_tool(name, arguments) runs to its first suspension point,
\* or to its end when it raises before any request.
CallTool(s, name, arguments) ==
  /\ calls[s].pc = "idle"
  /\ LET r == handle_call_tool_try(name, arguments) IN
       calls' = [calls EXCEPT ![s] =
         IF r.k = "await"
           THEN [pc |-> "awaiting", name |-> name, arguments |-> arguments,
                 post |-> r.post,
                 requests |-> <<HttpRequest(client, r.method, r.endpoint, r.data)>>,
                 nlog |-> 0]
           ELSE HandleException(name, arguments, << >>, NoOutcome, r, 0)]
  /\ UNCHANGED client

\* Faulty variant of Resume: the response is kept in a buffer shared by all
\* suspended invocations, and each of them runs to its end with it.
ResumeSharedResponse(s, outcome) ==
  calls' = [o \in Slots |->
    IF calls[o].pc # "awaiting" THEN calls[o]
    ELSE LET c == calls[o]
             m == make_request(c.requests[Len(c.requests)], outcome)
         IN IF m.res.k = "return"
              THEN LET result == ClientPost(c.post, m.res.value) IN
                Finished(c.name, c.arguments, c.requests, outcome, NoError, result,
                         <<TextContent(json_dumps(result))>>, c.nlog + m.logged, "done")
              ELSE HandleException(c.name, c.arguments, c.requests, outcome, m.res,
                                   c.nlog + m.logged)]

\* The awaited _make_request resumes with `outcome`; the client method and
\* handle_call_tool run to the end.
Resume(s, outcome) ==
  LET c == calls[s]
      m == make_request(c.requests[Len(c.requests)], outcome)
  IN calls' = [calls EXCEPT ![s] =
       IF m.res.k = "return"
         THEN LET result == ClientPost(c.post, m.res.value) IN
           Finished(c.name, c.arguments, c.requests, outcome, NoError, result,
                    <<TextContent(json_dumps(result))>>, c.nlog + m.logged, "done")
         ELSE HandleException(c.name, c.arguments, c.requests, outcome, m.res,
                              c.nlog + m.logged)]

UpstreamRespond(s, outcome) ==
  /\ calls[s].pc = "awaiting"
  /\ Resume(s, outcome)
  /\ UNCHANGED client

\* Faulty variant of RequestTimeout: client.request without a timeout.
RequestNeverTimesOut(s) ==
  /\ calls[s].pc = "awaiting"
  /\ FALSE
  /\ UNCHANGED vars

RequestTimeout(s) ==
  /\ calls[s].pc = "awaiting"
  /\ Resume(s, TimeoutOutcome)
  /\ UNCHANGED client

\* handle_list_tools() returns the catalogue; it has no suspension point.
\* The caller lists the tools with at most one other call or output at hand.
ListTools(s) ==
  /\ calls[s].pc = "idle"
  /\ Cardinality({o \in Slots \ {s} : calls[o].pc # "idle"}) <= 1
  /\ calls' = [calls EXCEPT ![s] = [pc |-> "listed", tools |-> handle_list_tools]]
  /\ UNCHANGED client

\* The caller takes the output; the invocation is discarded.
Deliver(s) ==
  /\ calls[s].pc \in {"done", "raised", "listed"}
  /\ calls' = [calls EXCEPT ![s] = Idle]
  /\ UNCHANGED client

\* The dispatcher is invoked one call at a time, with any name and any
\* argument mapping.
Invoke(s) ==
  /\ AllIdle
  /\ \E name \in ToolNames : \E arguments \in ArgumentsOf(name) :
       CallTool(s, name, arguments)

Next ==
  \E s \in Slots :
    \/ Invoke(s)
    \/ \E outcome \in Outcomes : UpstreamRespond(s, outcome)
    \/ RequestTimeout(s)
    \/ ListTools(s)
    \/ Deliver(s)

Spec == Init /\ [][Next]_vars

(***************************************************************************)
(* Repeated invocations: the caller keeps the output of one finished       *)
(* list_bases or get_table_schema while it goes on invoking tools, one     *)
(* call at a time, to compare a later output with it.                      *)
(***************************************************************************)
RepeatableTools == {"list_bases", "get_table_schema"}

\* The tools invoked in such a run: the two repeatable ones, one that
\* writes, and a name the dispatcher does not know.
RepeatToolNames == RepeatableTools \cup {"delete_table", "drop_database"}

\* The output in slot s is kept by the caller.
Kept(s) == calls[s].pc = "done" /\ calls[s].name \in RepeatableTools

InvokeAgain(s) ==
  /\ \A o \in Slots \ {s} : calls[o].pc = "idle" \/ Kept(o)
  /\ Cardinality({o \in Slots : calls[o].pc # "idle"}) <= 1
  /\ \E name \in RepeatToolNames : \E arguments \in ArgumentsOf(name) :
       CallTool(s, name, arguments)

NextRepeat ==
  \E s \in Slots :
    \/ InvokeAgain(s)
    \/ \E outcome \in Outcomes : UpstreamRespond(s, outcome)
    \/ RequestTimeout(s)
    \/ Deliver(s)

SpecRepeat == Init /\ [][NextRepeat]_vars

(***************************************************************************)
(* Concurrent invocations: the event loop runs handle_call_tool for a      *)
(* second call while the first is suspended in _make_request or its output *)
(* has not been taken yet; the two interleave at their suspension points.  *)
(***************************************************************************)
\* The tools invoked in such a run: a list-style read, a write with a
\* required field, and a name the dispatcher does not know.
ConcurrentToolNames == {"list_bases", "delete_table", "drop_database"}

InvokeConcurrently(s) ==
  /\ Cardinality({o \in Slots \ {s} : calls[o].pc # "idle"}) <= 1
  /\ \E name \in ConcurrentToolNames : \E arguments \in ArgumentsOf(name) :
       CallTool(s, name, arguments)

NextConcurrent ==
  \E s \in Slots :
    \/ InvokeConcurrently(s)
    \/ \E outcome \in Outcomes : UpstreamRespond(s, outcome)
    \/ RequestTimeout(s)
    \/ Deliver(s)

SpecConcurrent == Init /\ [][NextConcurrent]_vars

(***************************************************************************)
(* get_table_info and get_table_schema invoked side by side, to compare    *)
(* the two.                                                                *)
(***************************************************************************)
TableDescriptionTools == {"get_table_info", "get_table_schema"}

InvokeTableDescription(s) ==
  /\ Cardinality({o \in Slots \ {s} : calls[o].pc # "idle"}) <= 1
  /\ \E name \in TableDescriptionTools : \E arguments \in ArgumentsOf(name) :
       CallTool(s, name, arguments)

NextTableDescription ==
  \E s \in Slots :
    \/ InvokeTableDescription(s)
    \/ \E outcome \in Outcomes : UpstreamRespond(s, outcome)
    \/ RequestTimeout(s)
    \/ Deliver(s)

SpecTableDescription == Init /\ [][NextTableDescription]_vars

(***************************************************************************)
(* Invocations whose argument mapping may hold a key that is in no tool's  *)
(* schema.                                                                 *)
(***************************************************************************)
UnlistedArgument == "sort" :> JStr("-Title")

UnlistedArguments(name) ==
  ArgumentsOf(name) \cup {UnlistedArgument @@ a : a \in ArgumentsOf(name)}

InvokeUnlisted(s) ==
  /\ AllIdle
  /\ \E name \in ToolNames : \E arguments \in UnlistedArguments(name) :
       CallTool(s, name, arguments)

NextUnlisted ==
  \E s \in Slots :
    \/ InvokeUnlisted(s)
    \/ \E outcome \in Outcomes : UpstreamRespond(s, outcome)
    \/ RequestTimeout(s)
    \/ Deliver(s)

SpecUnlisted == Init /\ [][NextUnlisted]_vars

\* timeout=30.0 of client.request: a request that stays unanswered is ended
\* by the timeout.
SpecConcurrentLive ==
  SpecConcurrent /\ \A s \in Slots : WF_vars(RequestTimeout(s))

(***************************************************************************)
(* Vocabulary of the properties, stated on the inputs and the outputs of   *)
(* an invocation and not through the dispatcher's own tests.               *)
(***************************************************************************)
\* The invocation in slot s has started (and may have ended).
Started(s) == calls[s].pc \in {"awaiting", "done", "raised"}

\* The invocation in slot s has returned its output.
Done(s) == calls[s].pc = "done"

\* The text of the output of a finished invocation.
Payload(s) == calls[s].output[1].text

\* Present but empty: the empty string, the empty mapping, the empty list,
\* null, 0, false.
EmptyValue(x) ==
  \/ x.t = "null"
  \/ x.t = "str" /\ x.v = ""
  \/ x.t = "int" /\ x.v = 0
  \/ x.t = "bool" /\ x.v = FALSE
  \/ x.t = "obj" /\ x.v = << >>
  \/ x.t = "arr" /\ x.v = << >>

Omits(arguments, field) == field \notin DOMAIN arguments

HasNonEmpty(arguments, field) ==
  field \in DOMAIN arguments /\ ~EmptyValue(arguments[field])

SupportedViewTypes == {"grid", "form", "gallery", "kanban"}

\* view_data is a mapping whose "type" entry, if any, is a supported type.
SupportedView(view_data) ==
  /\ view_data.t = "obj"
  /\ \A i \in 1..Len(view_data.v) :
       view_data.v[i][1] = "type" =>
         /\ view_data.v[i][2].t = "str"
         /\ view_data.v[i][2].v \in SupportedViewTypes

\* All required fields present and non-empty and, for create_view, a
\* supported type.
WellFormedCall(name, arguments) ==
  /\ name \in CatalogueNames
  /\ \A f \in Required(name) : HasNonEmpty(arguments, f)
  /\ name = "create_view" => SupportedView(arguments["view_data"])

\* The network answered the request of the invocation with a failure: a
\* transport failure, a non-success status or a body that is no JSON.
UpstreamFailed(outcome) ==
  \/ outcome.kind = "raise"
  \/ /\ outcome.kind = "response"
     /\ \/ outcome.status \notin 200..299
        \/ outcome.content.c = "invalid"

\* The resource segment of the endpoint of each tool (of the view type, for
\* create_view).
ResourceSegment(name, arguments) ==
  CASE name \in {"list_bases", "create_base"} -> "/meta/bases"
    [] name = "get_base_info" -> "/info"
    [] name \in {"list_tables", "create_table"} -> "/tables"
    [] name \in {"get_table_info", "delete_table", "get_table_schema"} -> "/meta/tables/"
    [] name \in {"create_column", "update_column", "delete_column"} -> "/columns"
    [] name = "duplicate_table" -> "/duplicate"
    [] name = "create_view" ->
         LET ty == IF \E i \in 1..Len(arguments["view_data"].v) :
                        arguments["view_data"].v[i][1] = "type"
                   THEN (arguments["view_data"].v[
                           CHOOSE i \in 1..Len(arguments["view_data"].v) :
                             arguments["view_data"].v[i][1] = "type"][2]).v
                   ELSE "grid"
         IN (CASE ty = "grid" -> "/grids" [] ty = "form" -> "/forms"
               [] ty = "gallery" -> "/galleries" [] ty = "kanban" -> "/kanbans")
    [] name = "list_views" -> "/views"
    [] name = "delete_view" -> "/meta/views/"
    [] name \in {"create_filter", "list_filters", "delete_filter"} -> "/filters"
    [] name \in {"create_sort", "list_sorts", "delete_sort"} -> "/sorts"
    [] name \in {"create_webhook", "list_webhooks", "delete_webhook"} -> "/hooks"
    [] name = "test_webhook" -> "/hooks/test"
    [] name \in {"get_table_data", "create_record", "update_record", "delete_record",
                 "get_record", "bulk_insert_records", "bulk_update_records",
                 "bulk_delete_records"} -> "/records"
    [] name = "export_table_data" -> "/export/"
    [] name = "get_table_count" -> "/count"

(***************************************************************************)
(* C1: for every tool name, argument mapping and outcome of the upstream   *)
(* request, handle_call_tool returns normally with exactly one text item   *)
(* and never raises; when the invocation failed the text is "Error: "      *)
(* followed by the message of the raised error.                            *)
(***************************************************************************)
C1_NeverRaisesOneTextItem ==
  \A s \in Slots :
    /\ calls[s].pc # "raised"
    /\ Done(s) =>
         /\ Len(calls[s].output) = 1
         /\ calls[s].output[1].type = "text"
         /\ calls[s].error.k = "raise" => Payload(s) = "Error: " \o calls[s].error.msg

\* A request answered with status 500 ended in one "Error: " text item.
C1_Witness ==
  \E s \in Slots :
    /\ Done(s)
    /\ calls[s].outcome.kind = "response"
    /\ calls[s].outcome.status = 500
    /\ calls[s].error.k = "raise"
    /\ Len(calls[s].output) = 1

(***************************************************************************)
(* C2: for every catalogue tool and every one of its required fields, an   *)
(* invocation whose argument mapping omits that field returns a text       *)
(* payload starting with "Error:" and performs zero upstream requests.     *)
(***************************************************************************)
C2_OmittedRequiredFieldRejected ==
  \A s \in Slots :
    (/\ Started(s)
     /\ calls[s].name \in CatalogueNames
     /\ \E f \in Required(calls[s].name) : Omits(calls[s].arguments, f))
    => /\ Done(s)
       /\ StartsWith(Payload(s), "Error:")
       /\ calls[s].requests = << >>

\* create_table without columns, its other three required fields present
\* and non-empty, was rejected.
C2_Witness ==
  \E s \in Slots :
    /\ Done(s)
    /\ calls[s].name = "create_table"
    /\ Omits(calls[s].arguments, "columns")
    /\ \A f \in {"base_id", "title", "table_name"} : HasNonEmpty(calls[s].arguments, f)
    /\ StartsWith(Payload(s), "Error:")

(***************************************************************************)
(* C3: a name that is not in the tool catalogue returns exactly the text   *)
(* "Error: Unknown tool: <name>" and performs zero upstream requests,      *)
(* whatever the arguments are.                                             *)
(***************************************************************************)
C3_UnknownToolRejected ==
  \A s \in Slots :
    (Started(s) /\ calls[s].name \notin CatalogueNames)
    => /\ Done(s)
       /\ calls[s].output = <<[type |-> "text",
                               text |-> "Error: Unknown tool: " \o calls[s].name]>>
       /\ calls[s].requests = << >>

\* An unknown name sent with a table_id was rejected.
C3_Witness ==
  \E s \in Slots :
    /\ Done(s)
    /\ calls[s].name = "drop_database"
    /\ HasNonEmpty(calls[s].arguments, "table_id")

(***************************************************************************)
(* C4: for every catalogue tool, an invocation with all required fields    *)
(* present and non-empty (and, for create_view, a supported type) performs *)
(* exactly one upstream request, also when the request fails, and the      *)
(* request path contains the resource segment of the tool.                 *)
(***************************************************************************)
C4_ExactlyOneRequest ==
  \A s \in Slots :
    (Started(s) /\ WellFormedCall(calls[s].name, calls[s].arguments))
    => /\ Len(calls[s].requests) = 1
       /\ Contains(calls[s].requests[1].endpoint,
                   ResourceSegment(calls[s].name, calls[s].arguments))

\* A well-formed create_view whose request failed with status 500 ended
\* after its one request.
C4_Witness ==
  \E s \in Slots :
    /\ Done(s)
    /\ calls[s].name = "create_view"
    /\ WellFormedCall(calls[s].name, calls[s].arguments)
    /\ calls[s].outcome.kind = "response"
    /\ calls[s].outcome.status = 500
    /\ Len(calls[s].requests) = 1

(***************************************************************************)
(* C5 as stated: a transport failure, a non-success status and a           *)
(* JSON-parse failure all yield the one payload prefix                     *)
(* "Error: Request failed: ", whatever the kind of failure.                *)
(***************************************************************************)
C5_UniformRequestFailed ==
  \A s \in Slots :
    (Done(s) /\ UpstreamFailed(calls[s].outcome))
    => StartsWith(Payload(s), "Error: Request failed: ")

(***************************************************************************)
(* C5 amended: a transport failure (connection refused, timeout) yields    *)
(* "Error: API request failed: <message>" and so does, with the message of *)
(* the status error, a non-success status; a JSON-parse failure of a       *)
(* successful response yields "Error: Request failed: <message>".          *)
(***************************************************************************)
C5_RequestFailedByKind ==
  \A s \in Slots :
    Done(s) =>
      LET o == calls[s].outcome IN
        /\ (o.kind = "raise" /\ o.cls \in {"ConnectError", "ReadTimeout"})
             => Payload(s) = "Error: API request failed: " \o o.msg
        /\ (o.kind = "response" /\ o.status \notin 200..299)
             => StartsWith(Payload(s), "Error: API request failed: ")
        /\ (o.kind = "response" /\ o.status \in 200..299 /\ o.content.c = "invalid")
             => Payload(s) = "Error: Request failed: " \o o.content.msg

\* A refused connection ended in the payload of the HTTP-error clause.
C5_Witness ==
  \E s \in Slots :
    /\ Done(s)
    /\ calls[s].outcome.kind = "raise"
    /\ calls[s].outcome.cls = "ConnectError"
    /\ StartsWith(Payload(s), "Error: API request failed: ")

(***************************************************************************)
(* C6: a required field that is present but empty or falsy (empty string,  *)
(* empty mapping, empty list, null, 0) is treated as missing: the          *)
(* invocation returns an "Error:" payload and performs zero upstream       *)
(* requests.                                                               *)
(***************************************************************************)
C6_EmptyRequiredFieldRejected ==
  \A s \in Slots :
    (/\ Started(s)
     /\ calls[s].name \in CatalogueNames
     /\ \E f \in Required(calls[s].name) :
          f \in DOMAIN calls[s].arguments /\ EmptyValue(calls[s].arguments[f]))
    => /\ Done(s)
       /\ StartsWith(Payload(s), "Error:")
       /\ calls[s].requests = << >>

\* duplicate_table with options = {} and a table_id was rejected.
C6_Witness ==
  \E s \in Slots :
    /\ Done(s)
    /\ calls[s].name = "duplicate_table"
    /\ HasNonEmpty(calls[s].arguments, "table_id")
    /\ "options" \in DOMAIN calls[s].arguments
    /\ calls[s].arguments["options"].t = "obj"
    /\ calls[s].arguments["options"].v = << >>
    /\ StartsWith(Payload(s), "Error:")

(***************************************************************************)
(* C7: create_view with a non-empty table_id and a view_data whose "type"  *)
(* is outside {grid, form, gallery, kanban} returns an "Error:" payload    *)
(* and performs zero upstream requests.                                    *)
(***************************************************************************)
UnsupportedView(view_data) ==
  /\ view_data.t = "obj"
  /\ \E i \in 1..Len(view_data.v) :
       /\ view_data.v[i][1] = "type"
       /\ \/ view_data.v[i][2].t # "str"
          \/ view_data.v[i][2].v \notin SupportedViewTypes

C7_UnsupportedViewTypeRejected ==
  \A s \in Slots :
    (/\ Started(s)
     /\ calls[s].name = "create_view"
     /\ HasNonEmpty(calls[s].arguments, "table_id")
     /\ "view_data" \in DOMAIN calls[s].arguments
     /\ UnsupportedView(calls[s].arguments["view_data"]))
    => /\ Done(s)
       /\ StartsWith(Payload(s), "Error:")
       /\ calls[s].requests = << >>

\* create_view of type calendar was rejected.
C7_Witness ==
  \E s \in Slots :
    /\ Done(s)
    /\ calls[s].name = "create_view"
    /\ HasNonEmpty(calls[s].arguments, "table_id")
    /\ "view_data" \in DOMAIN calls[s].arguments
    /\ UnsupportedView(calls[s].arguments["view_data"])
    /\ DictHas(calls[s].arguments["view_data"], "type")
    /\ PyEq(DictGet(calls[s].arguments["view_data"], "type", None), JStr("calendar"))
    /\ Payload(s) = "Error: Unsupported view type: calendar"

(***************************************************************************)
(* C8: the payload starts with "Error:" if and only if the invocation      *)
(* failed (it was rejected before any request, or its request failed); a   *)
(* successful invocation's payload never starts with "Error:", whatever    *)
(* value the upstream service returned.                                    *)
(***************************************************************************)
FailedInvocation(s) ==
  calls[s].requests = << >> \/ UpstreamFailed(calls[s].outcome)

C8_ErrorPrefixIffFailed ==
  \A s \in Slots :
    Done(s) => (StartsWith(Payload(s), "Error:") <=> FailedInvocation(s))

\* The upstream service answered 200 with the JSON string "Error: boom".
C8_Witness ==
  \E s \in Slots :
    /\ Done(s)
    /\ ~FailedInvocation(s)
    /\ calls[s].outcome.content.c = "json"
    /\ calls[s].outcome.content.value.t = "str"
    /\ calls[s].outcome.content.value.v = "Error: boom"
    /\ ~StartsWith(Payload(s), "Error:")

(***************************************************************************)
(* C9: for each list-style tool, when the decoded upstream body is a       *)
(* mapping with a "list" field the tool returns exactly the value of that  *)
(* field, and when the decoded body is a bare array the tool returns it    *)
(* unchanged.                                                              *)
(***************************************************************************)
ListStyleTools ==
  {"list_bases", "list_tables", "list_views", "list_filters", "list_sorts",
   "list_webhooks"}

\* The decoded body of a successful response with a JSON body.
DecodedBody(s) == calls[s].outcome.content.value

HasDecodedBody(s) ==
  /\ calls[s].outcome.kind = "response"
  /\ calls[s].outcome.status \in 200..299
  /\ calls[s].outcome.content.c = "json"

C9_ListExtraction ==
  \A s \in Slots :
    (Done(s) /\ calls[s].name \in ListStyleTools /\ HasDecodedBody(s))
    => LET b == DecodedBody(s) IN
         /\ b.t = "obj" =>
              \A i \in 1..Len(b.v) :
                b.v[i][1] = "list" =>
                  /\ calls[s].result = b.v[i][2]
                  /\ Payload(s) = json_dumps(b.v[i][2])
         /\ b.t = "arr" =>
              /\ calls[s].result = b
              /\ Payload(s) = json_dumps(b)

\* list_views answered with {"list": [one item], "pageInfo": ...} returned
\* the one-item list.
C9_Witness ==
  \E s \in Slots :
    /\ Done(s)
    /\ calls[s].name = "list_views"
    /\ HasDecodedBody(s)
    /\ DecodedBody(s).t = "obj"
    /\ Len(DecodedBody(s).v) = 2
    /\ DecodedBody(s).v[1][1] = "list"
    /\ DecodedBody(s).v[1][2].t = "arr"
    /\ Len(DecodedBody(s).v[1][2].v) = 1
    /\ calls[s].result = DecodedBody(s).v[1][2]

(***************************************************************************)
(* C10: when optional arguments are absent the request is the one with the *)
(* documented defaults: get_table_data with no limit and no offset issues  *)
(* GET /tables/{table_id}/records?limit=25&offset=0, and export_table_data *)
(* with no export_type issues GET /tables/{table_id}/export/csv.           *)
(***************************************************************************)
C10_DefaultsWhenAbsent ==
  \A s \in Slots :
    (/\ Started(s)
     /\ calls[s].name \in {"get_table_data", "export_table_data"}
     /\ "table_id" \in DOMAIN calls[s].arguments
     /\ calls[s].arguments["table_id"].t = "str"
     /\ calls[s].arguments["table_id"].v # "")
    => LET id == calls[s].arguments["table_id"].v IN
         /\ (/\ calls[s].name = "get_table_data"
             /\ Omits(calls[s].arguments, "limit")
             /\ Omits(calls[s].arguments, "offset"))
            => /\ Len(calls[s].requests) = 1
               /\ calls[s].requests[1].method = "GET"
               /\ calls[s].requests[1].endpoint
                    = "/tables/" \o id \o "/records?limit=25&offset=0"
         /\ (/\ calls[s].name = "export_table_data"
             /\ Omits(calls[s].arguments, "export_type"))
            => /\ Len(calls[s].requests) = 1
               /\ calls[s].requests[1].method = "GET"
               /\ calls[s].requests[1].endpoint = "/tables/" \o id \o "/export/csv"

\* get_table_data with only a table_id has issued its request.
C10_Witness ==
  \E s \in Slots :
    /\ calls[s].pc = "awaiting"
    /\ calls[s].name = "get_table_data"
    /\ DOMAIN calls[s].arguments = {"table_id"}
    /\ calls[s].requests[1].endpoint = "/tables/t1/records?limit=25&offset=0"

(***************************************************************************)
(* C11: bulk_delete_records with a non-empty table_id and a non-empty      *)
(* record_ids list issues one DELETE request to /tables/{table_id}/records *)
(* whose JSON body is exactly {"ids": record_ids}, the identifiers in the  *)
(* caller's order, none added or dropped.                                  *)
(***************************************************************************)
NonEmptyString(arguments, field) ==
  /\ field \in DOMAIN arguments
  /\ arguments[field].t = "str"
  /\ arguments[field].v # ""

NonEmptyList(arguments, field) ==
  /\ field \in DOMAIN arguments
  /\ arguments[field].t = "arr"
  /\ Len(arguments[field].v) > 0

C11_BulkDeleteBody ==
  \A s \in Slots :
    (/\ Started(s)
     /\ calls[s].name = "bulk_delete_records"
     /\ NonEmptyString(calls[s].arguments, "table_id")
     /\ NonEmptyList(calls[s].arguments, "record_ids"))
    => /\ Len(calls[s].requests) = 1
       /\ calls[s].requests[1].method = "DELETE"
       /\ calls[s].requests[1].endpoint
            = "/tables/" \o calls[s].arguments["table_id"].v \o "/records"
       /\ calls[s].requests[1].json.t = "obj"
       /\ Len(calls[s].requests[1].json.v) = 1
       /\ calls[s].requests[1].json.v[1][1] = "ids"
       /\ calls[s].requests[1].json.v[1][2].t = "arr"
       /\ calls[s].requests[1].json.v[1][2].v = calls[s].arguments["record_ids"].v

\* The identifiers r2, r1 were sent in that order.
C11_Witness ==
  \E s \in Slots :
    /\ calls[s].pc = "awaiting"
    /\ calls[s].name = "bulk_delete_records"
    /\ NonEmptyString(calls[s].arguments, "table_id")
    /\ NonEmptyList(calls[s].arguments, "record_ids")
    /\ calls[s].arguments["record_ids"].v = <<JStr("r2"), JStr("r1")>>
    /\ calls[s].requests[1].json.v[1][2].v = <<JStr("r2"), JStr("r1")>>

(***************************************************************************)
(* Endpoint shapes: a path is split at "/" after its query string is cut   *)
(* off; in a shape "*" stands for an identifier, any non-empty segment.    *)
(***************************************************************************)
RECURSIVE CutQuery(_, _)
CutQuery(endpoint, i) ==
  IF i > Len(endpoint) THEN endpoint
  ELSE IF SubSeq(endpoint, i, i) = "?" THEN SubSeq(endpoint, 1, i - 1)
  ELSE CutQuery(endpoint, i + 1)

RECURSIVE SplitSlash(_, _, _, _)
SplitSlash(path, i, cur, acc) ==
  IF i > Len(path) THEN Append(acc, cur)
  ELSE IF SubSeq(path, i, i) = "/" THEN SplitSlash(path, i + 1, "", Append(acc, cur))
  ELSE SplitSlash(path, i + 1, cur \o SubSeq(path, i, i), acc)

\* The segments of an endpoint; the text before the first "/" is segment 1
\* and is empty for a well-formed endpoint.
Segments(endpoint) == SplitSlash(CutQuery(endpoint, 1), 1, "", << >>)

SegmentsMatch(segs, shape) ==
  /\ Len(segs) = Len(shape) + 1
  /\ segs[1] = ""
  /\ \A i \in 1..Len(shape) :
       IF shape[i] = "*" THEN segs[i + 1] # "" ELSE segs[i + 1] = shape[i]

MatchesShape(endpoint, shape) == SegmentsMatch(Segments(endpoint), shape)

\* The endpoint is an instance of one of the shapes.
MatchesOneOf(endpoint, shapes) ==
  LET segs == Segments(endpoint) IN \E shape \in shapes : SegmentsMatch(segs, shape)

\* The endpoint shapes the interface description lists.
ListedShapes ==
  {<<"meta", "bases">>, <<"meta", "bases", "*", "info">>,
   <<"meta", "bases", "*", "tables">>, <<"meta", "tables", "*">>,
   <<"meta", "tables", "*", "columns">>, <<"meta", "tables", "*", "columns", "*">>,
   <<"meta", "tables", "*", "duplicate">>,
   <<"meta", "tables", "*", "grids">>, <<"meta", "tables", "*", "forms">>,
   <<"meta", "tables", "*", "galleries">>, <<"meta", "tables", "*", "kanbans">>,
   <<"meta", "tables", "*", "views">>, <<"meta", "views", "*">>,
   <<"meta", "views", "*", "filters">>, <<"meta", "views", "*", "filters", "*">>,
   <<"meta", "views", "*", "sorts">>, <<"meta", "views", "*", "sorts", "*">>,
   <<"meta", "tables", "*", "hooks">>, <<"meta", "tables", "*", "hooks", "*">>,
   <<"meta", "tables", "*", "hooks", "test">>,
   <<"meta", "tables", "*", "hooks", "*", "test">>,
   <<"tables", "*", "records">>, <<"tables", "*", "records", "*">>,
   <<"tables", "*", "export", "*">>, <<"tables", "*", "count">>}

\* The invocation in slot s has issued a request for identifiers that are
\* non-empty strings.
RequestedWithStringIds(s) ==
  /\ Started(s)
  /\ Len(calls[s].requests) = 1
  /\ \A f \in DOMAIN calls[s].arguments :
       f \in {"base_id", "table_id", "column_id", "view_id", "filter_id", "sort_id",
              "hook_id", "record_id", "export_type"}
         => NonEmptyString(calls[s].arguments, f)

(***************************************************************************)
(* C12 as stated: every upstream request path is an instance of one of the *)
(* listed endpoint shapes; delete_filter, delete_sort and delete_webhook   *)
(* address /meta/views/{id}/filters/{id}, /meta/views/{id}/sorts/{id} and  *)
(* /meta/tables/{id}/hooks/{id}.                                           *)
(***************************************************************************)
C12_AllPathsListed ==
  \A s \in Slots :
    RequestedWithStringIds(s) =>
      LET e == calls[s].requests[1].endpoint IN
        /\ MatchesOneOf(e, ListedShapes)
        /\ calls[s].name = "delete_filter"
             => MatchesShape(e, <<"meta", "views", "*", "filters", "*">>)
        /\ calls[s].name = "delete_sort"
             => MatchesShape(e, <<"meta", "views", "*", "sorts", "*">>)
        /\ calls[s].name = "delete_webhook"
             => MatchesShape(e, <<"meta", "tables", "*", "hooks", "*">>)

(***************************************************************************)
(* C12 amended: delete_filter, delete_sort and delete_webhook address      *)
(* /meta/filters/{id}, /meta/sorts/{id} and /meta/hooks/{id}, by the       *)
(* identifier of the filter, sort or hook alone; the request path of every *)
(* other tool is an instance of one of the listed endpoint shapes.         *)
(***************************************************************************)
C12_PathsListedButDeletes ==
  \A s \in Slots :
    RequestedWithStringIds(s) =>
      LET e == calls[s].requests[1].endpoint IN
        /\ calls[s].name = "delete_filter"
             => e = "/meta/filters/" \o calls[s].arguments["filter_id"].v
        /\ calls[s].name = "delete_sort"
             => e = "/meta/sorts/" \o calls[s].arguments["sort_id"].v
        /\ calls[s].name = "delete_webhook"
             => e = "/meta/hooks/" \o calls[s].arguments["hook_id"].v
        /\ calls[s].name \notin {"delete_filter", "delete_sort", "delete_webhook"}
             => MatchesOneOf(e, ListedShapes)

\* delete_filter has issued its request to /meta/filters/t1.
C12_Witness ==
  \E s \in Slots :
    /\ RequestedWithStringIds(s)
    /\ calls[s].name = "delete_filter"
    /\ calls[s].requests[1].method = "DELETE"
    /\ calls[s].requests[1].endpoint = "/meta/filters/t1"

\* The table sub-path the interface description assigns to a view type.
ViewSubPath(ty) ==
  CASE ty = "grid" -> "/grids"
    [] ty = "form" -> "/forms"
    [] ty = "gallery" -> "/galleries"
    [] ty = "kanban" -> "/kanbans"

\* The invocation in slot s is create_view for a table named by a non-empty
\* string, with a view_data mapping that declares the supported type ty.
CreatesViewOfType(s, ty) ==
  /\ Started(s)
  /\ calls[s].name = "create_view"
  /\ NonEmptyString(calls[s].arguments, "table_id")
  /\ "view_data" \in DOMAIN calls[s].arguments
  /\ calls[s].arguments["view_data"].t = "obj"
  /\ DictHas(calls[s].arguments["view_data"], "type")
  /\ PyEq(DictGet(calls[s].arguments["view_data"], "type", None), JStr(ty))

(***************************************************************************)
(* C13: create_view routes by the declared type of view_data: grid, form,  *)
(* gallery and kanban each issue one POST to /meta/tables/{table_id}/grids,*)
(* /forms, /galleries, /kanbans respectively, carrying view_data, and no   *)
(* two types share a sub-path.                                             *)
(***************************************************************************)
C13_CreateViewRoutesByType ==
  \A s \in Slots : \A ty \in SupportedViewTypes :
    CreatesViewOfType(s, ty) =>
      /\ Len(calls[s].requests) = 1
      /\ calls[s].requests[1].method = "POST"
      /\ calls[s].requests[1].endpoint =
           "/meta/tables/" \o calls[s].arguments["table_id"].v \o ViewSubPath(ty)
      /\ calls[s].requests[1].json = calls[s].arguments["view_data"]
      /\ \A other \in SupportedViewTypes \ {ty} :
           calls[s].requests[1].endpoint #
             "/meta/tables/" \o calls[s].arguments["table_id"].v \o ViewSubPath(other)

\* create_view of a gallery has posted to the table's /galleries sub-path.
C13_Witness ==
  \E s \in Slots :
    /\ CreatesViewOfType(s, "gallery")
    /\ calls[s].pc = "awaiting"
    /\ calls[s].requests[1].endpoint = "/meta/tables/t1/galleries"

(***************************************************************************)
(* A JSON reader, to state what a payload text parses back to.  A parse    *)
(* step yields [ok, val, pos]: the value read and the position after it.   *)
(***************************************************************************)
CharAt(text, i) == IF i \in 1..Len(text) THEN SubSeq(text, i, i) ELSE ""

\* The n characters of text from position i, fewer at the end of the text.
TextAt(text, i, n) ==
  IF i > Len(text) THEN ""
  ELSE SubSeq(text, i, IF i + n - 1 > Len(text) THEN Len(text) ELSE i + n - 1)

ParseFail == [ok |-> FALSE]

Parsed(val, pos) == [ok |-> TRUE, val |-> val, pos |-> pos]

RECURSIVE SkipWhitespace(_, _)
SkipWhitespace(text, i) ==
  IF CharAt(text, i) \in {" ", "\n", "\t", "\r"} THEN SkipWhitespace(text, i + 1) ELSE i

Digits == {"0", "1", "2", "3", "4", "5", "6", "7", "8", "9"}

DigitValue(c) ==
  CASE c = "0" -> 0 [] c = "1" -> 1 [] c = "2" -> 2 [] c = "3" -> 3 [] c = "4" -> 4
    [] c = "5" -> 5 [] c = "6" -> 6 [] c = "7" -> 7 [] c = "8" -> 8 [] c = "9" -> 9

RECURSIVE ParseDigits(_, _, _)
ParseDigits(text, i, acc) ==
  IF CharAt(text, i) \in Digits
    THEN ParseDigits(text, i + 1, 10 * acc + DigitValue(CharAt(text, i)))
    ELSE Parsed(acc, i)

\* The characters of a string literal from position i to its closing quote.
RECURSIVE ParseStringBody(_, _, _)
ParseStringBody(text, i, acc) ==
  LET c == CharAt(text, i) IN
    IF c = "" \/ c = "\n" THEN ParseFail
    ELSE IF c = "\"" THEN Parsed(acc, i + 1)
    ELSE IF c = "\\" THEN
      LET e == CharAt(text, i + 1) IN
        IF e = "\"" THEN ParseStringBody(text, i + 2, acc \o "\"")
        ELSE IF e = "\\" THEN ParseStringBody(text, i + 2, acc \o "\\")
        ELSE IF e = "n" THEN ParseStringBody(text, i + 2, acc \o "\n")
        ELSE IF e = "t" THEN ParseStringBody(text, i + 2, acc \o "\t")
        ELSE IF e = "r" THEN ParseStringBody(text, i + 2, acc \o "\r")
        ELSE IF e = "f" THEN ParseStringBody(text, i + 2, acc \o "\f")
        ELSE ParseFail
    ELSE ParseStringBody(text, i + 1, acc \o c)

RECURSIVE ParseValue(_, _)
RECURSIVE ParseItems(_, _, _)
RECURSIVE ParsePairs(_, _, _)

ParseValue(text, start) ==
  LET i == SkipWhitespace(text, start)
      c == CharAt(text, i)
  IN
    IF TextAt(text, i, 4) = "null" THEN Parsed(None, i + 4)
    ELSE IF TextAt(text, i, 4) = "true" THEN Parsed(JBool(TRUE), i + 4)
    ELSE IF TextAt(text, i, 5) = "false" THEN Parsed(JBool(FALSE), i + 5)
    ELSE IF c = "\"" THEN
      LET r == ParseStringBody(text, i + 1, "") IN
        IF r.ok THEN Parsed(JStr(r.val), r.pos) ELSE ParseFail
    ELSE IF c \in Digits THEN
      LET r == ParseDigits(text, i, 0) IN Parsed(JInt(r.val), r.pos)
    ELSE IF c = "-" /\ CharAt(text, i + 1) \in Digits THEN
      LET r == ParseDigits(text, i + 1, 0) IN Parsed(JInt(0 - r.val), r.pos)
    ELSE IF c = "[" THEN
      IF CharAt(text, SkipWhitespace(text, i + 1)) = "]"
        THEN Parsed(JArr(<< >>), SkipWhitespace(text, i + 1) + 1)
        ELSE ParseItems(text, i + 1, << >>)
    ELSE IF c = "{" THEN
      IF CharAt(text, SkipWhitespace(text, i + 1)) = "}"
        THEN Parsed(JObj(<< >>), SkipWhitespace(text, i + 1) + 1)
        ELSE ParsePairs(text, i + 1, << >>)
    ELSE ParseFail

\* The items of an array from position i, the opening bracket already read.
ParseItems(text, i, acc) ==
  LET r == ParseValue(text, i) IN
    IF ~r.ok THEN ParseFail
    ELSE LET j == SkipWhitespace(text, r.pos) IN
      IF CharAt(text, j) = "," THEN ParseItems(text, j + 1, Append(acc, r.val))
      ELSE IF CharAt(text, j) = "]" THEN Parsed(JArr(Append(acc, r.val)), j + 1)
      ELSE ParseFail

\* The members of an object from position i, the opening brace already read.
ParsePairs(text, i, acc) ==
  LET k == SkipWhitespace(text, i) IN
    IF CharAt(text, k) # "\"" THEN ParseFail
    ELSE LET key == ParseStringBody(text, k + 1, "") IN
      IF ~key.ok THEN ParseFail
      ELSE LET c == SkipWhitespace(text, key.pos) IN
        IF CharAt(text, c) # ":" THEN ParseFail
        ELSE LET r == ParseValue(text, c + 1) IN
          IF ~r.ok THEN ParseFail
          ELSE LET j == SkipWhitespace(text, r.pos)
                   members == Append(acc, <<key.val, r.val>>)
               IN IF CharAt(text, j) = "," THEN ParsePairs(text, j + 1, members)
                  ELSE IF CharAt(text, j) = "}" THEN Parsed(JObj(members), j + 1)
                  ELSE ParseFail

NotJson == [t |-> "error"]

\* json.loads(text); NotJson when text is no JSON document.
JsonLoads(text) ==
  LET r == ParseValue(text, 1) IN
    IF r.ok /\ SkipWhitespace(text, r.pos) > Len(text) THEN r.val ELSE NotJson

\* Equality of two JSON values, compared tag first.
RECURSIVE JsonEq(_, _)
JsonEq(a, b) ==
  /\ a.t = b.t
  /\ CASE a.t \in {"str", "int", "bool"} -> a.v = b.v
       [] a.t = "arr" ->
            /\ Len(a.v) = Len(b.v)
            /\ \A i \in 1..Len(a.v) : JsonEq(a.v[i], b.v[i])
       [] a.t = "obj" ->
            /\ Len(a.v) = Len(b.v)
            /\ \A i \in 1..Len(a.v) :
                 a.v[i][1] = b.v[i][1] /\ JsonEq(a.v[i][2], b.v[i][2])
       [] OTHER -> TRUE

\* The invocation in slot s ended without an exception.
Succeeded(s) == Done(s) /\ calls[s].error = NoError

(***************************************************************************)
(* C14: on success the sole output is the JSON serialization of the value  *)
(* the client method returned: the payload parses back to exactly that     *)
(* value, which for a tool that is not list-style is the decoded response  *)
(* body and for list_bases the list of bases.                              *)
(***************************************************************************)
C14_PayloadParsesBackToResult ==
  \A s \in Slots :
    Succeeded(s) =>
      /\ Len(calls[s].output) = 1
      /\ LET parsed == JsonLoads(Payload(s)) IN
           /\ JsonEq(parsed, calls[s].result)
           /\ (HasDecodedBody(s) /\ calls[s].name \notin ListStyleTools)
                => JsonEq(parsed, DecodedBody(s))
           /\ (HasDecodedBody(s) /\ calls[s].name = "list_bases"
                 /\ DecodedBody(s).t = "obj" /\ DictHas(DecodedBody(s), "list"))
                => JsonEq(parsed, DictGet(DecodedBody(s), "list", None))

\* get_base_info returned a mapping whose title holds quotation marks, and
\* the payload parsed back to it.
C14_Witness ==
  \E s \in Slots :
    /\ Succeeded(s)
    /\ calls[s].name = "get_base_info"
    /\ calls[s].result = JObj(<< <<"id", JStr("a")>>, <<"title", JStr("T \"1\"")>> >>)
    /\ JsonEq(JsonLoads(Payload(s)), calls[s].result)

\* Slots s and o hold two finished invocations of the same repeatable tool
\* with the same arguments, which met the same upstream response.
RepeatedUnchanged(s, o) ==
  /\ s # o
  /\ Done(s) /\ Done(o)
  /\ calls[s].name \in {"list_bases", "get_table_schema"}
  /\ calls[o].name = calls[s].name
  /\ calls[o].arguments = calls[s].arguments
  /\ calls[o].outcome = calls[s].outcome

NamesOf(tools) == {tools[i].name : i \in 1..Len(tools)}

\* handle_call_tool has a handler for name: called with an empty argument
\* mapping it does not answer "Unknown tool" (the branch is chosen by the
\* name alone, before any argument is read).
HasHandler(name) ==
  LET r == handle_call_tool_try(name, << >>) IN
    ~(r.k = "raise" /\ r.msg = "Unknown tool: " \o name)

\* The introspection operation has answered in slot s.
Listed(s) == calls[s].pc = "listed"

(***************************************************************************)
(* C16: the introspection operation returns the full catalogue, the same   *)
(* on every call whatever invocations preceded it; the tool names in it    *)
(* are pairwise distinct; and a name is in the catalogue if and only if    *)
(* handle_call_tool has a handler for it, that is, does not answer         *)
(* "Unknown tool".                                                         *)
(***************************************************************************)
C16_CatalogueMatchesHandlers ==
  /\ \A s \in Slots :
       Listed(s) =>
         LET names == NamesOf(calls[s].tools) IN
           /\ calls[s].tools = handle_list_tools
           /\ Cardinality(names) = Len(calls[s].tools)
           /\ \A o \in Slots : Listed(o) => calls[o].tools = calls[s].tools
           /\ \A name \in ToolNames : name \in names <=> HasHandler(name)
           /\ \A o \in Slots :
                Done(o) => (calls[o].name \in names
                              <=> Payload(o) # "Error: Unknown tool: " \o calls[o].name)
  /\ \A s \in Slots :
       Done(s) => (calls[s].name \in CatalogueNames
                     <=> Payload(s) # "Error: Unknown tool: " \o calls[s].name)

\* The catalogue was listed after an invocation of an unknown name was
\* rejected.
C16_Witness ==
  \E s \in Slots : \E o \in Slots :
    /\ Listed(s)
    /\ "list_bases" \in NamesOf(calls[s].tools)
    /\ "drop_database" \notin NamesOf(calls[s].tools)
    /\ Done(o)
    /\ calls[o].name = "drop_database"
    /\ Payload(o) = "Error: Unknown tool: drop_database"

\* The four headers of a client with the given credentials.
FourHeaders(c) ==
  << <<"xc-token", c.api_token>>,
     <<"Content-Type", "application/json">>,
     <<"CF-Access-Client-Id", c.cf_client_id>>,
     <<"CF-Access-Client-Secret", c.cf_client_secret>> >>

\* Every request issued so far went to {base_url}/api/v2{endpoint} with the
\* four headers of the client.
RequestsUseConfig ==
  /\ client.headers = FourHeaders(client)
  /\ \A s \in Slots :
       Started(s) =>
         \A i \in 1..Len(calls[s].requests) :
           /\ calls[s].requests[i].url
                = client.base_url \o "/api/v2" \o calls[s].requests[i].endpoint
           /\ calls[s].requests[i].headers = FourHeaders(client)

(***************************************************************************)
(* C17: no step of any invocation, successful or failed, changes the       *)
(* connection configuration (base URL, API token, the two access-gateway   *)
(* credentials, the header set), and every upstream request is issued      *)
(* against {base_url}/api/v2{endpoint} carrying the same four headers.     *)
(***************************************************************************)
C17_ConfigNeverChanges ==
  /\ [][client' = client]_vars
  /\ [](client.base_url = "https://db.example" /\ RequestsUseConfig)

\* A failed invocation whose request went to the configured base URL.
C17_Witness ==
  \E s \in Slots :
    /\ Done(s)
    /\ calls[s].name = "get_base_info"
    /\ UpstreamFailed(calls[s].outcome)
    /\ Len(calls[s].requests) = 1
    /\ calls[s].requests[1].url = "https://db.example/api/v2/meta/bases/t1/info"
    /\ calls[s].requests[1].headers[1] = <<"xc-token", "tok">>

\* The upstream service answered the request of the invocation in slot s.
Answered(s) ==
  /\ calls[s].pc \in {"done", "raised"}
  /\ calls[s].outcome.kind = "response"

(***************************************************************************)
(* C18: the call primitive returns a value only for a successful HTTP      *)
(* status: the parsed JSON body, or an empty mapping when the response     *)
(* body is empty (which a list-style method turns into the empty list);    *)
(* for a non-success status it raises, the body is not the result, and the *)
(* dispatcher's payload is an "Error:" text.                               *)
(***************************************************************************)
C18_ValueOnlyOnSuccessStatus ==
  \A s \in Slots :
    Answered(s) =>
      LET o == calls[s].outcome IN
        /\ o.status \notin 200..299 =>
             /\ Done(s)
             /\ calls[s].error # NoError
             /\ calls[s].result = None
             /\ StartsWith(Payload(s), "Error:")
        /\ (o.status \in 200..299 /\ o.content.c = "empty") =>
             /\ Succeeded(s)
             /\ calls[s].name \notin ListStyleTools =>
                  calls[s].result = JObj(<< >>) /\ Payload(s) = "{}"
             /\ calls[s].name \in ListStyleTools =>
                  calls[s].result = JArr(<< >>) /\ Payload(s) = "[]"
        /\ (o.status \in 200..299 /\ o.content.c = "json") =>
             /\ Succeeded(s)
             /\ calls[s].name \notin ListStyleTools =>
                  JsonEq(calls[s].result, o.content.value)
        /\ Succeeded(s) => o.status \in 200..299

\* The upstream service answered get_record with 404 and a JSON body; the
\* payload is an error text.
C18_Witness ==
  \E s \in Slots :
    /\ Answered(s)
    /\ calls[s].name = "get_record"
    /\ calls[s].outcome.status = 404
    /\ calls[s].outcome.content.c = "json"
    /\ calls[s].result = None
    /\ StartsWith(Payload(s), "Error: API request failed:")

\* The invocation in slot s is get_table_count for a table named by a
\* non-empty string.
CountsTable(s) ==
  /\ Started(s)
  /\ calls[s].name = "get_table_count"
  /\ NonEmptyString(calls[s].arguments, "table_id")

(***************************************************************************)
(* C19: get_table_count appends a query string to /tables/{table_id}/count:*)
(* a filter expression (where) that is supplied appears in it exactly as   *)
(* given, with no escaping; when where is absent (or null or the empty     *)
(* string) the query string is count=true and has no where parameter.      *)
(***************************************************************************)
C19_WhereVerbatim ==
  \A s \in Slots :
    CountsTable(s) =>
      LET a == calls[s].arguments
          base == "/tables/" \o a["table_id"].v \o "/count?count=true"
      IN /\ Len(calls[s].requests) = 1
         /\ calls[s].requests[1].method = "GET"
         /\ NonEmptyString(a, "where") =>
              calls[s].requests[1].endpoint = base \o "&where=" \o a["where"].v
         /\ ("where" \notin DOMAIN a \/ EmptyValue(ArgGet(a, "where", None))) =>
              /\ calls[s].requests[1].endpoint = base
              /\ ~Contains(calls[s].requests[1].endpoint, "where")

\* A filter expression with a space, "&", "=" and "?" went into the query
\* string as it was given.
C19_Witness ==
  \E s \in Slots :
    /\ CountsTable(s)
    /\ calls[s].pc = "awaiting"
    /\ calls[s].requests[1].endpoint
         = "/tables/t1/count?count=true&where=(Title,like,a b&c=d?)"

\* The field is left out of the argument mapping, or is there but empty.
LeftOut(arguments, field) ==
  Omits(arguments, field) \/ EmptyValue(arguments[field])

(***************************************************************************)
(* C20: when a required field is missing or empty, the "Error:" payload    *)
(* names the missing field(s): for every tool and every non-empty subset   *)
(* of its required fields left out, the error text contains the name of    *)
(* each field that was left out.                                           *)
(***************************************************************************)
C20_ErrorNamesMissingFields ==
  \A s \in Slots :
    (Started(s) /\ calls[s].name \in CatalogueNames) =>
      \A f \in Required(calls[s].name) :
        LeftOut(calls[s].arguments, f) =>
          /\ Done(s)
          /\ StartsWith(Payload(s), "Error:")
          /\ Contains(Payload(s), f)

\* update_column with only column_id given: the error names table_id and
\* column_data, the two fields left out.
C20_Witness ==
  \E s \in Slots :
    /\ Done(s)
    /\ calls[s].name = "update_column"
    /\ HasNonEmpty(calls[s].arguments, "column_id")
    /\ Omits(calls[s].arguments, "table_id")
    /\ LeftOut(calls[s].arguments, "column_data")
    /\ Contains(Payload(s), "table_id")
    /\ Contains(Payload(s), "column_data")

\* Slots s and o hold two finished invocations with the same tool name and
\* arguments whose requests, if any, met the same upstream response.
SameInputs(s, o) ==
  /\ s # o
  /\ Done(s) /\ Done(o)
  /\ calls[o].name = calls[s].name
  /\ calls[o].arguments = calls[s].arguments
  /\ calls[o].outcome = calls[s].outcome

OwnResponseInOrder(s) ==
  /\ calls[s].pc = "awaiting" =>
       /\ WellFormedCall(calls[s].name, calls[s].arguments)
       /\ Len(calls[s].requests) = 1
       /\ Contains(calls[s].requests[1].endpoint,
                   ResourceSegment(calls[s].name, calls[s].arguments))
       /\ NonEmptyString(calls[s].arguments, "table_id") =>
            Contains(calls[s].requests[1].endpoint, calls[s].arguments["table_id"].v)
  /\ (Done(s) /\ ~WellFormedCall(calls[s].name, calls[s].arguments)) =>
       /\ calls[s].requests = << >>
       /\ StartsWith(Payload(s), "Error:")
  /\ (Done(s) /\ calls[s].requests # << >>) =>
       /\ WellFormedCall(calls[s].name, calls[s].arguments)
       /\ Len(calls[s].requests) = 1
       /\ calls[s].outcome # NoOutcome
       /\ UpstreamFailed(calls[s].outcome) <=> StartsWith(Payload(s), "Error:")
  /\ (Succeeded(s) /\ HasDecodedBody(s)) =>
       LET parsed == JsonLoads(Payload(s)) IN
         /\ calls[s].name \notin ListStyleTools => JsonEq(parsed, DecodedBody(s))
         /\ (calls[s].name \in ListStyleTools /\ DecodedBody(s).t = "arr")
              => JsonEq(parsed, DecodedBody(s))

\* A step of one invocation leaves every other invocation as it was.
OneInvocationSteps ==
  \A s \in Slots :
    calls'[s] # calls[s] => \A o \in Slots \ {s} : calls'[o] = calls[o]

(***************************************************************************)
(* C22: when two invocations are in flight concurrently and interleave at  *)
(* their upstream-request suspension points, each returns the payload      *)
(* built from the response to its own request; a step of one changes       *)
(* nothing of the other nor the configuration; and within one invocation   *)
(* validation precedes the request, which precedes serialization.          *)
(***************************************************************************)
C22_NoCrossTalk ==
  /\ [][client' = client /\ OneInvocationSteps]_vars
  /\ [](\A s \in Slots : OwnResponseInOrder(s))

\* delete_table got its answer and returned it while a list_bases invoked
\* beside it is still suspended on its own request.
C22_Witness ==
  \E s \in Slots : \E o \in Slots :
    /\ Succeeded(s)
    /\ calls[s].name = "delete_table"
    /\ HasDecodedBody(s)
    /\ DecodedBody(s) = JObj(<< <<"id", JStr("a")>>, <<"title", JStr("T \"1\"")>> >>)
    /\ JsonEq(JsonLoads(Payload(s)), DecodedBody(s))
    /\ calls[o].pc = "awaiting"
    /\ calls[o].name = "list_bases"

\* The request of the invocation in slot s is unanswered.
Suspended(s) == calls[s].pc = "awaiting"

\* The request of the invocation in slot s ran into the timeout.
TimedOut(s) == Done(s) /\ calls[s].outcome = TimeoutOutcome

(***************************************************************************)
(* C23: every invocation eventually returns a payload: an upstream request *)
(* that gets no response is ended by the per-request timeout and treated   *)
(* as a failure (an "Error:" payload), so no invocation stays suspended    *)
(* forever.                                                                *)
(***************************************************************************)
C23_EventuallyReturns ==
  /\ \A s \in Slots : Suspended(s) ~> (Done(s) /\ Len(calls[s].output) = 1)
  /\ [](\A s \in Slots : TimedOut(s) => StartsWith(Payload(s), "Error:"))
  /\ [](\A s \in Slots : calls[s].pc # "raised")

\* delete_table ran into the timeout and returned an error payload.
C23_Witness ==
  \E s \in Slots :
    /\ TimedOut(s)
    /\ calls[s].name = "delete_table"
    /\ Len(calls[s].requests) = 1
    /\ calls[s].requests[1].timeout = RequestTimeoutSeconds
    /\ StartsWith(Payload(s), "Error: API request failed:")

(***************************************************************************)
(* C24 as stated: every failed invocation is logged exactly once: for a    *)
(* validation failure, an unsupported view type and a failed upstream      *)
(* request alike exactly one error log record is emitted between the start *)
(* of the invocation and the return of its "Error:" payload, and a         *)
(* successful invocation emits none.                                       *)
(***************************************************************************)
C24_FailureLoggedOnce ==
  \A s \in Slots :
    Done(s) =>
      /\ calls[s].error # NoError => calls[s].nlog = 1
      /\ calls[s].error = NoError => calls[s].nlog = 0

\* The upstream service answered the list-style invocation in slot s with a
\* success status and a body that decodes to a mapping without a "list"
\* field, or with an empty body.
MappingWithoutList(s) ==
  /\ Done(s)
  /\ calls[s].name \in ListStyleTools
  /\ calls[s].outcome.kind = "response"
  /\ calls[s].outcome.status \in 200..299
  /\ \/ calls[s].outcome.content.c = "empty"
     \/ /\ calls[s].outcome.content.c = "json"
        /\ DecodedBody(s).t = "obj"
        /\ \A i \in 1..Len(DecodedBody(s).v) : DecodedBody(s).v[i][1] # "list"

(***************************************************************************)
(* C25: for a list-style tool, a successful upstream response whose        *)
(* decoded body is a mapping without a "list" field (including the empty   *)
(* mapping produced by an empty response body) yields an empty list as the *)
(* result, not the mapping itself and not an error.                        *)
(***************************************************************************)
C25_NoListFieldGivesEmptyList ==
  \A s \in Slots :
    MappingWithoutList(s) =>
      /\ calls[s].error = NoError
      /\ calls[s].result = JArr(<< >>)
      /\ Len(calls[s].output) = 1
      /\ Payload(s) = "[]"

\* list_tables was answered with a mapping that holds an id and a title
\* but no list, and returned the empty list.
C25_Witness ==
  \E s \in Slots :
    /\ MappingWithoutList(s)
    /\ calls[s].name = "list_tables"
    /\ calls[s].outcome.content.c = "json"
    /\ Len(DecodedBody(s).v) = 2
    /\ Payload(s) = "[]"

\* The invocation in slot s is create_view for a table named by a non-empty
\* string, with a non-empty view_data mapping that has no "type" field.
CreatesUntypedView(s) ==
  /\ Started(s)
  /\ calls[s].name = "create_view"
  /\ NonEmptyString(calls[s].arguments, "table_id")
  /\ "view_data" \in DOMAIN calls[s].arguments
  /\ calls[s].arguments["view_data"].t = "obj"
  /\ Len(calls[s].arguments["view_data"].v) > 0
  /\ \A i \in 1..Len(calls[s].arguments["view_data"].v) :
       calls[s].arguments["view_data"].v[i][1] # "type"

(***************************************************************************)
(* C26: create_view with a non-empty view_data that has no "type" field is *)
(* not rejected: it is treated as type grid and issues one POST to         *)
(* /meta/tables/{table_id}/grids with view_data as the body.               *)
(***************************************************************************)
C26_UntypedViewIsGrid ==
  \A s \in Slots :
    CreatesUntypedView(s) =>
      /\ Len(calls[s].requests) = 1
      /\ calls[s].requests[1].method = "POST"
      /\ calls[s].requests[1].endpoint
           = "/meta/tables/" \o calls[s].arguments["table_id"].v \o "/grids"
      /\ calls[s].requests[1].json = calls[s].arguments["view_data"]
      /\ Done(s) => (StartsWith(Payload(s), "Error:") <=> UpstreamFailed(calls[s].outcome))

\* create_view with view_data {"title": "Name"} succeeded through /grids.
C26_Witness ==
  \E s \in Slots :
    /\ CreatesUntypedView(s)
    /\ Succeeded(s)
    /\ calls[s].arguments["view_data"] = SampleObject
    /\ calls[s].requests[1].endpoint = "/meta/tables/t1/grids"

ReadStyleTools ==
  {"list_bases", "list_tables", "list_views", "list_filters", "list_sorts",
   "list_webhooks", "get_base_info", "get_table_info", "get_table_schema",
   "get_table_data", "get_record", "get_table_count", "export_table_data"}

(***************************************************************************)
(* C27: the read-style tools only ever issue GET requests without a body:  *)
(* no invocation of list_bases, list_tables, list_views, list_filters,     *)
(* list_sorts, list_webhooks, get_base_info, get_table_info,               *)
(* get_table_schema, get_table_data, get_record, get_table_count or        *)
(* export_table_data issues a POST, PATCH or DELETE upstream.              *)
(***************************************************************************)
C27_ReadToolsOnlyGet ==
  \A s \in Slots :
    (Started(s) /\ calls[s].name \in ReadStyleTools) =>
      \A i \in 1..Len(calls[s].requests) :
        /\ calls[s].requests[i].method = "GET"
        /\ calls[s].requests[i].json = None

\* get_record has issued its request: a GET without a body.
C27_Witness ==
  \E s \in Slots :
    /\ Started(s)
    /\ calls[s].name = "get_record"
    /\ Len(calls[s].requests) = 1
    /\ calls[s].requests[1].method = "GET"
    /\ calls[s].requests[1].endpoint = "/tables/t1/records/t1"

\* The argument mapping cut down to the properties of the tool's schema.
ListedOnly(name, arguments) ==
  [f \in DOMAIN arguments \cap SeqToSet(Descriptor(name).properties) |-> arguments[f]]

\* The requests the dispatcher issues for a tool and an argument mapping.
RequestsFor(name, arguments) ==
  LET r == handle_call_tool_try(name, arguments) IN
    IF r.k = "await" THEN <<HttpRequest(client, r.method, r.endpoint, r.data)>>
    ELSE << >>

(***************************************************************************)
(* C28: the dispatcher rejects an invocation for a missing field only when *)
(* that field is in the catalogue's required list for the tool: with every *)
(* required field given, omitting optional fields never causes rejection;  *)
(* an invocation rejected before the network left out a required field (or *)
(* named an unsupported view type); and arguments that are not in the      *)
(* tool's schema are ignored and never forwarded upstream.                 *)
(***************************************************************************)
C28_OnlyRequiredFieldsReject ==
  \A s \in Slots :
    (Started(s) /\ calls[s].name \in CatalogueNames) =>
      LET name == calls[s].name
          a == calls[s].arguments
      IN /\ WellFormedCall(name, a) => Len(calls[s].requests) = 1
         /\ calls[s].requests = << >> =>
              \/ \E f \in Required(name) : LeftOut(a, f)
              \/ name = "create_view" /\ ~SupportedView(a["view_data"])
         /\ calls[s].requests = RequestsFor(name, ListedOnly(name, a))
         /\ \A i \in 1..Len(calls[s].requests) :
              ~Contains(calls[s].requests[i].url, "-Title")

\* export_table_data without export_type and with an unlisted "sort"
\* argument has issued its request for the default format.
C28_Witness ==
  \E s \in Slots :
    /\ Started(s)
    /\ calls[s].name = "export_table_data"
    /\ DOMAIN calls[s].arguments = {"table_id", "sort"}
    /\ Len(calls[s].requests) = 1
    /\ calls[s].requests[1].endpoint = "/tables/t1/export/csv"

\* The formats the catalogue declares for export_table_data.
DeclaredExportTypes == {"csv", "excel", "json"}

\* The invocation in slot s is export_table_data for a table named by a
\* non-empty string, with a string export_type outside the declared formats.
ExportsUndeclaredType(s) ==
  /\ Started(s)
  /\ calls[s].name = "export_table_data"
  /\ NonEmptyString(calls[s].arguments, "table_id")
  /\ "export_type" \in DOMAIN calls[s].arguments
  /\ calls[s].arguments["export_type"].t = "str"
  /\ calls[s].arguments["export_type"].v \notin DeclaredExportTypes

(***************************************************************************)
(* C29: enumerated values declared in the catalogue other than the view    *)
(* type are not enforced by dispatch: export_table_data with an            *)
(* export_type outside {csv, excel, json} is not rejected before the       *)
(* network but issues one GET to /tables/{table_id}/export/{export_type}   *)
(* with the supplied value embedded verbatim in the path.                  *)
(***************************************************************************)
C29_ExportTypeNotEnforced ==
  \A s \in Slots :
    ExportsUndeclaredType(s) =>
      /\ Len(calls[s].requests) = 1
      /\ calls[s].requests[1].method = "GET"
      /\ calls[s].requests[1].json = None
      /\ calls[s].requests[1].endpoint
           = "/tables/" \o calls[s].arguments["table_id"].v \o "/export/"
               \o calls[s].arguments["export_type"].v

\* export_table_data with export_type "xml" has issued its request.
C29_Witness ==
  \E s \in Slots :
    /\ ExportsUndeclaredType(s)
    /\ calls[s].pc = "awaiting"
    /\ calls[s].requests[1].endpoint = "/tables/t1/export/xml"

\* Slot s holds a get_table_info and slot o a get_table_schema with the same
\* arguments.
InfoAndSchema(s, o) ==
  /\ Started(s) /\ Started(o)
  /\ calls[s].name = "get_table_info"
  /\ calls[o].name = "get_table_schema"
  /\ calls[s].arguments = calls[o].arguments

(***************************************************************************)
(* C30: get_table_info and get_table_schema are equivalent operations: for *)
(* every table_id they issue the same upstream request (GET                *)
(* /meta/tables/{table_id}, no body) and, given the same upstream          *)
(* response, return identical payload text; for a missing table_id both    *)
(* return the same error payload.                                          *)
(***************************************************************************)
C30_InfoEquivalentToSchema ==
  \A s \in Slots : \A o \in Slots :
    InfoAndSchema(s, o) =>
      /\ calls[s].requests = calls[o].requests
      /\ NonEmptyString(calls[s].arguments, "table_id") =>
           /\ Len(calls[s].requests) = 1
           /\ calls[s].requests[1].method = "GET"
           /\ calls[s].requests[1].endpoint
                = "/meta/tables/" \o calls[s].arguments["table_id"].v
           /\ calls[s].requests[1].json = None
      /\ LeftOut(calls[s].arguments, "table_id") =>
           /\ Done(s) /\ Done(o)
           /\ StartsWith(Payload(s), "Error:")
           /\ Payload(s) = Payload(o)
      /\ (Done(s) /\ Done(o) /\ calls[s].outcome = calls[o].outcome) =>
           calls[s].output = calls[o].output

\* Both tools were answered with the same table description and returned
\* the same text.
C30_Witness ==
  \E s \in Slots : \E o \in Slots :
    /\ InfoAndSchema(s, o)
    /\ Succeeded(s) /\ Succeeded(o)
    /\ calls[s].outcome = calls[o].outcome
    /\ calls[s].result = JObj(<< <<"id", JStr("a")>>, <<"title", JStr("T \"1\"")>> >>)
    /\ Payload(s) = Payload(o)

====
